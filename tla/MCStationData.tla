----------------------------- MODULE MCStationData -----------------------------
(***************************************************************************)
(* StationData for model checking.                                         *)
(***************************************************************************)
EXTENDS StationData, TLC

CONSTANTS s1, s2, l1, l2, t1, v1, v2, p1, e1, d1, d2, c1, c2, c3, x1, a1, a2, k1, k2, k3, w1, w2

TwoStations == {s1, s2}
TwoLists == {l1, l2}
OneToken == {t1}
TwoValues == {v1, v2}
OwnProfiles == {p1}
OneOther == {e1}
TwoDisplays == {d1, d2}
ThreeConnectors == {c1, c2, c3}
OneExchange == {x1}

\* Two EVSEs have a connector 1 each; the third connector is a connector 2.
NumberOf == [c \in ThreeConnectors |-> IF c = c3 THEN 2 ELSE 1]

\* Two EVSEs with different connectors, and the rows that say something
\* about them or about the token.
TwoEvses == {a1, a2}
ConnectorTypeOf == [e \in TwoEvses |-> IF e = a1 THEN "cCCS2" ELSE "sType2"]

ListsOfTypes == {<<>>, <<"cCCS2">>, <<"sType2">>, <<"cCCS2", "sType2">>, <<"sType2", "cCCS2">>}

Plain == [status |-> "Accepted", expired |-> FALSE, concurrentTransaction |-> FALSE,
          realTime |-> "Allowed", allowedTypes |-> None, disallowedEvses |-> None]

SomeRows ==
  {[Plain EXCEPT !.status = s, !.realTime = r, !.concurrentTransaction = b] :
     s \in {"Accepted", "Blocked", None}, r \in {"Allowed", "AllowedOffline", "Never"},
     b \in BOOLEAN}
  \union {[Plain EXCEPT !.allowedTypes = list, !.disallowedEvses = evses] :
            list \in ListsOfTypes \union {None}, evses \in SUBSET TwoEvses \union {None}}

\* Two certificates are of a type, and a variable may have two monitors.
ThreeCertificates == {k1, k2, k3}
TypeOfCertificate == [c \in ThreeCertificates |-> IF c = k3 THEN "MO" ELSE "V2G"]
ThreeMonitors == {[variable |-> w1, type |-> "Upper"], [variable |-> w1, type |-> "Lower"],
                  [variable |-> w2, type |-> "Upper"]}

Symmetry == Permutations(TwoStations)
===============================================================================
