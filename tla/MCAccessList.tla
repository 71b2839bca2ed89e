--------------------------- MODULE MCAccessList ---------------------------
(***************************************************************************)
(* A network inside another one, a second small network beside it, and a   *)
(* host in no network, which also stands for one that does not parse.      *)
(***************************************************************************)
EXTENDS AccessList

MCHost == {"a", "b", "out"}
MCNet == {"narrow", "wide", "other"}
MCContains == [n \in MCNet |-> CASE n = "narrow" -> {"a"}
                                 [] n = "wide" -> {"a", "b"}
                                 [] n = "other" -> {"b"}]
MCLines == {[parses |-> p, ip |-> h, net |-> n, level |-> l] :
              p \in BOOLEAN, h \in {"a", "b"}, n \in MCNet, l \in 0..2}
MCWritten == {l \in MCLines : IF l.parses THEN l.ip \in MCContains[l.net]
                              ELSE l.ip = "a" /\ l.net = "wide" /\ l.level = 2}
=============================================================================
