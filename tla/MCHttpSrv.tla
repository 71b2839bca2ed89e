----------------------------- MODULE MCHttpSrv -----------------------------
(***************************************************************************)
(* A small machine for HttpSrv: two private addresses, one of them on the  *)
(* ignore list, and a public one; two ports, and ini files that differ in  *)
(* the fields Configure compares.                                          *)
(***************************************************************************)
EXTENDS HttpSrv

emptyPath == [segs |-> <<>>, slash |-> FALSE]

MCPath == {emptyPath, Root}

MCInitRegs == <<>>

MCRegChoice ==
  {[u |-> [method |-> "GET", pattern |-> Root, access |-> ACCESS_LEVEL_NONE,
           f |-> "app"],
    type |-> "ALL_HANDLER"]}

\* both sides alike: plain port, TLS port, ignore list, certificates
both(plain, tls, ignore, cert) ==
  [port |-> [s \in Side |-> plain], tlsPort |-> [s \in Side |-> tls],
   dir |-> [s \in Side |-> noDir], ignore |-> ignore,
   redirect |-> TRUE, cert |-> cert]

withDir(c, s, d) == [c EXCEPT !.dir[s] = d]

base == both(1, 2, {"p1"}, 1)

MCInitCfgs == {base}

\* ports that move, meet and go away, an address that is no longer ignored, a
\* static directory; files with different ignore lists differ in all ports too, so
\* that a change of the list comes with a restart
MCConfigs ==
  {base, both(2, 1, {}, 1), both(1, 1, {"p1"}, 0),
   withDir(both(0, 2, {"p1"}, 1), "private", "www")}

\* a foreign process may hold a private port
MCTaken == {{}, {<<"p2", 1>>}}
=============================================================================
