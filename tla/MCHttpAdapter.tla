--------------------------- MODULE MCHttpAdapter ---------------------------
EXTENDS HttpAdapter

CONSTANTS r1, r2, e1, e2, b1, b2, h1, h2

\* Both requests are for the first host.  The second expression matches all
\* of the second request's URI, the first a part of every URI.
MCHostOf == [r \in Requests |-> h1]
MCMatches(e, r) == IF e = e1 THEN "part" ELSE IF r = r2 THEN "full" ELSE "no"
MCDecides(r) == IF r = r1 THEN b1 ELSE b2
MCRoutes == {[exp |-> e1, alias |-> b1], [exp |-> e1, alias |-> b2],
             [exp |-> e2, alias |-> b2]}

\* An expression twice at the front, beside a second host.
MCConfigured ==
  {[h \in Hosts |-> IF h = h1 THEN << [exp |-> e1, alias |-> b1],
                                     [exp |-> e1, alias |-> b2],
                                     [exp |-> e2, alias |-> b2] >>
                             ELSE << [exp |-> e1, alias |-> b1] >>]}
=============================================================================
