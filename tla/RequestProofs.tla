--------------------------- MODULE RequestProofs ---------------------------
(***************************************************************************)
(* Proofs about a request: how ServeHTTP answers it (Dispatch), for every  *)
(* set of clients, hosts, paths and handlers and any number of changes     *)
(* meanwhile, and how its statistics are recorded (IPStats), for every set *)
(* of entries and every size of the ring.                                  *)
(*                                                                         *)
(* Dispatch: DInv is inductive.  It carries where the handler of a request *)
(* was found and which access list let it through, in terms of what was in *)
(* force since the request came; and how many redirects are still ahead,   *)
(* which a change of the handlers in the meantime cannot raise.  TallyInv  *)
(* counts: a step either gives nobody an answer or gives one client one    *)
(* more and raises one counter, so the finite set of the answers given     *)
(* grows with the sum of the counters.                                     *)
(*                                                                         *)
(* IPStats: RInv says that an entry is in the recorder's hand or in a cell *)
(* only when its sender has handed it over, that the hand and the cells    *)
(* hold different entries, and that no two cells hold the same one.        *)
(* WrittenLast says that a walk around the ring meets the cells that were  *)
(* never written first, so what a reader collects is the rest of the walk. *)
(*                                                                         *)
(* Two definitions are recursive functions, path.Clean and the collecting  *)
(* callback.  A recursive function is pinned down by the least argument at *)
(* which it could differ, or be missing (LeastNumber).                     *)
(***************************************************************************)
EXTENDS FiniteSetTheorems, SequenceTheorems, WellFoundedInduction, Dispatch, IPStats, TLAPS

\* the paths a request may have: the first one, a clean one, a pattern
ReqPath == RawPath \cup Path \cup {cleanPath(p) : p \in RawPath \cup Path}

PC == {"idle", "received", "host", "access", "geo", "following", "served",
       "aborted", "done"}
ReqType ==
  [pc : PC, method : Method \cup {"GET"}, path : ReqPath, TLS : BOOLEAN,
   forwarded : Host \cup {noHost}, remote : Host \cup {noHost},
   host : Host \cup {noHost}, h : muxEntry, target : ReqPath, hops : Nat, answers : Nat]

\* a redirect is found under the pattern it leads to, without the slash
redirectsAreBare(mux) ==
  \A k \in Key : mux[k].f = "redirect" =>
    mux[k].pattern.slash /\ k[2] = noSlash(mux[k].pattern)

TypeInv ==
  /\ m \in [Key -> muxEntry] /\ redirectsAreBare(m)
  /\ initPos \in Nat
  /\ level \in LevelSet
  /\ req \in [Client -> ReqType]
  /\ muxes \in [Client -> SUBSET [Key -> muxEntry]]
  /\ levels \in [Client -> SUBSET LevelSet]
  /\ cnt \in [Counter -> Nat] /\ logged \in Nat /\ plain \in Nat

\* the redirects a request may still meet: to TLS, to the clean path, to "/tree/"
pathHops(method, path) ==
  IF method # "CONNECT" /\ cleanPath(path) # path THEN 2
  ELSE IF path.slash THEN 0 ELSE 1
ahead(method, path, TLS) == (IF TLS THEN 0 ELSE 1) + pathHops(method, path)

pending == {"host", "access", "geo"}

\* what holds of a request, given what was in force since it came
routed(r, ms, lvs) ==
  /\ r.pc \in pending => r.h = redirect \/ \E mux \in ms : r.h = match(mux, r.method, r.path)
  /\ r.pc = "geo" => \E lv \in lvs : lv[r.host] >= r.h.access
  /\ r.pc \in {"served", "aborted"} =>
       /\ \E lv \in lvs : lv[r.host] >= r.h.access
       /\ \E mux \in ms : r.h = match(mux, r.method, r.path)
  /\ r.pc \in {"access", "geo"} => r.h # nilEntry /\ r.host \in Host

bounded(r) ==
  /\ r.hops <= 3
  /\ r.pc \in {"received"} \cup pending => r.hops + ahead(r.method, r.path, r.TLS) <= 3
  /\ (r.pc = "following" \/ (r.pc \in pending /\ r.h.f = "redirect")) =>
       r.hops + 1 + ahead(r.method, r.target, r.TLS) <= 3

answered(r) ==
  /\ r.answers = r.hops + (IF r.pc \in {"following", "served", "done"} THEN 1 ELSE 0)
  /\ r.pc = "idle" => r.hops = 0

fine(r, ms, lvs) == routed(r, ms, lvs) /\ bounded(r) /\ answered(r)

Fresh(c) == req[c].pc # "idle" => started /\ m \in muxes[c] /\ level \in levels[c]

DInv ==
  /\ TypeInv
  /\ \A c \in Client : fine(req[c], muxes[c], levels[c]) /\ Fresh(c)
  /\ loggedAll

-----------------------------------------------------------------------------
(* The multiplexer and the paths. *)

(***************************************************************************)
(* A nonempty set of numbers has a least one.                              *)
(***************************************************************************)
LEMMA LeastNumber ==
  ASSUME NEW T \in SUBSET Nat, T # {}
  PROVE  \E n \in T : \A k \in T : n <= k
<1> DEFINE R == OpToRel(<, Nat)
<1>1. IsWellFoundedOn(R, Nat)
  BY NatLessThanWellFounded
<1>2. PICK n \in T : \A k \in T : <<k, n>> \notin R
  <2> HIDE DEF R
  <2> QED
    BY <1>1, WFMin
<1>3. \A k \in T : ~(k < n)
  BY <1>2 DEF OpToRel
<1> QED
  BY <1>3

(***************************************************************************)
(* The zero entry and the redirect to a clean path are entries.            *)
(***************************************************************************)
LEMMA EntryTypes ==
  /\ nilEntry \in muxEntry /\ nilEntry.f = "nil"
  /\ redirect \in muxEntry /\ redirect.f = "redirect" /\ Root \in Path
BY PathAssumption DEF nilEntry, redirect, muxEntry, AccessLevel, ACCESS_LEVEL_NONE,
   ACCESS_LEVEL_USER, ACCESS_LEVEL_ADMIN

(***************************************************************************)
(* Handle keeps the redirects where they belong.                           *)
(***************************************************************************)
LEMMA HandleBare ==
  ASSUME NEW mux \in [Key -> muxEntry], redirectsAreBare(mux), NEW u \in UriHandler
  PROVE  Handle(mux, u) \in [Key -> muxEntry] /\ redirectsAreBare(Handle(mux, u))
<1> DEFINE own == [explicit |-> TRUE, f |-> u.f, access |-> u.access, pattern |-> u.pattern]
           helper == [explicit |-> FALSE, f |-> "redirect", access |-> u.access,
                      pattern |-> u.pattern]
<1>1. /\ u.method \in Method /\ u.pattern \in Path /\ u.access \in AccessLevel
      /\ u.f \in Func
  BY DEF UriHandler
<1>2. own \in muxEntry /\ helper \in muxEntry /\ own.f # "redirect"
  BY <1>1, FuncAssumption DEF muxEntry
<1>3. Handle(mux, u) \in [Key -> muxEntry]
  BY <1>2 DEF Handle
<1>4. ASSUME NEW k \in Key, Handle(mux, u)[k].f = "redirect"
      PROVE  /\ Handle(mux, u)[k].pattern.slash
             /\ k[2] = noSlash(Handle(mux, u)[k].pattern)
  <2>1. CASE Handle(mux, u)[k] = own
    BY <1>2, <1>4, <2>1
  <2>2. CASE /\ k = makeKey(u.method, noSlash(u.pattern)) /\ u.pattern.slash
             /\ Handle(mux, u)[k] = helper
    BY <2>2 DEF makeKey
  <2>3. CASE Handle(mux, u)[k] = mux[k]
    BY <1>4, <2>3 DEF redirectsAreBare
  <2> QED
    BY <2>1, <2>2, <2>3 DEF Handle
<1> QED
  BY <1>3, <1>4 DEF redirectsAreBare

(***************************************************************************)
(* So does RemoveHandleFunc.                                               *)
(***************************************************************************)
LEMMA RemoveBare ==
  ASSUME NEW mux \in [Key -> muxEntry], redirectsAreBare(mux), NEW method, NEW path
  PROVE  /\ RemoveHandleFunc(mux, method, path) \in [Key -> muxEntry]
         /\ redirectsAreBare(RemoveHandleFunc(mux, method, path))
<1> DEFINE n == RemoveHandleFunc(mux, method, path)
<1>1. \A k \in Key : n[k] = nilEntry \/ n[k] = mux[k]
  BY DEF RemoveHandleFunc
<1>2. n \in [Key -> muxEntry]
  BY EntryTypes DEF RemoveHandleFunc
<1> HIDE DEF n
<1>3. redirectsAreBare(n)
  BY <1>1, EntryTypes DEF redirectsAreBare
<1> QED
  BY <1>2, <1>3 DEF n

(***************************************************************************)
(* path.Clean: its loop over the segments, one round after the other.  No  *)
(* length is the least one for which the loop has no rounds to give.       *)
(***************************************************************************)
round(f, q, i) == IF i = 0 THEN <<>> ELSE push(f[i - 1], q[i])

LEMMA CleanLoop ==
  ASSUME NEW S, NEW q \in Seq(S)
  PROVE  \E f : f = [i \in 0..Len(q) |-> round(f, q, i)] /\ Clean(q) = f[Len(q)]
<1> DEFINE L == Len(q)
           runs(n) == \E f : f = [i \in 0..n |-> round(f, q, i)]
           T == {n \in 0..L : ~runs(n)}
<1>1. L \in Nat
  OBVIOUS
<1>2. runs(0)
  <2> DEFINE g == [i \in 0..0 |-> <<>>]
  <2>1. g = [i \in 0..0 |-> round(g, q, i)]
    BY DEF round
  <2> QED
    BY <2>1
<1>3. ASSUME NEW n \in 1..L, runs(n - 1) PROVE runs(n)
  <2> DEFINE m1 == n - 1
  <2>1. PICK f : f = [i \in 0..m1 |-> round(f, q, i)]
    BY <1>3
  <2> DEFINE g == [i \in 0..n |-> IF i = n THEN push(f[m1], q[n]) ELSE f[i]]
  <2>2. ASSUME NEW i \in 0..n PROVE g[i] = round(g, q, i)
    <3>1. n \in Nat /\ n # 0 /\ m1 \in 0..n /\ m1 # n /\ m1 = n - 1
      BY <1>1
    <3>2. CASE i = n
      <4>1. g[n] = push(f[m1], q[n]) /\ g[m1] = f[m1]
        BY <3>1
      <4> QED
        BY <3>1, <3>2, <4>1 DEF round
    <3>3. CASE i = 0
      <4>1. g[0] = f[0] /\ f[0] = <<>>
        BY <2>1, <3>1 DEF round
      <4> QED
        BY <3>3, <4>1 DEF round
    <3>4. CASE i # n /\ i # 0
      <4>1. i \in 0..m1 /\ i - 1 \in 0..n /\ i - 1 # n
        BY <3>1, <3>4
      <4>2. g[i] = f[i] /\ g[i - 1] = f[i - 1]
        BY <3>4, <4>1
      <4>3. f[i] = round(f, q, i)
        BY <2>1, <4>1
      <4> QED
        BY <3>4, <4>2, <4>3 DEF round
    <3> QED
      BY <3>2, <3>3, <3>4
  <2>3. g = [i \in 0..n |-> round(g, q, i)]
    BY <2>2
  <2> QED
    BY <2>3
<1>4. T = {}
  <2>1. SUFFICES ASSUME T # {} PROVE FALSE
    OBVIOUS
  <2>2. PICK n \in T : \A j \in T : n <= j
    <3>1. T \in SUBSET Nat
      BY <1>1
    <3> HIDE DEF T
    <3> QED
      BY <2>1, <3>1, LeastNumber
  <2>3. n \in 0..L /\ ~runs(n)
    BY <2>2
  <2> HIDE DEF runs
  <2>4. n \in 1..L /\ n - 1 \in 0..L /\ ~(n <= n - 1)
    BY <1>1, <1>2, <2>3
  <2>5. runs(n - 1)
    BY <2>2, <2>4
  <2> QED
    BY <1>3, <2>3, <2>4, <2>5
<1>5. runs(L)
  BY <1>1, <1>4
<1> QED
  BY <1>5 DEF Clean, round

(***************************************************************************)
(* path.Clean returns a path without "", "." and "..", and one without     *)
(* them as it is.                                                          *)
(***************************************************************************)
Dots == {"", ".", ".."}

LEMMA CleanReturns ==
  ASSUME NEW S, NEW q \in Seq(S)
  PROVE  Clean(q) \in Seq(S \ Dots)
<1> DEFINE L == Len(q)
           C == Seq(S \ Dots)
<1>1. L \in Nat /\ \A i \in 1..L : q[i] \in S
  BY ElementOfSeq
<1>2. PICK f : f = [i \in 0..L |-> round(f, q, i)] /\ Clean(q) = f[L]
  BY CleanLoop
<1>3. ASSUME NEW p \in C, NEW s \in S PROVE push(p, s) \in C
  <2>1. CASE s \in {"", "."}
    BY <2>1 DEF push
  <2>2. CASE s = ".." /\ p = <<>>
    BY <2>2 DEF push
  <2>3. CASE s = ".." /\ p # <<>>
    <3>1. Len(p) \in Nat \ {0}
      BY <2>3, EmptySeq
    <3>2. SubSeq(p, 1, Len(p) - 1) \in C
      BY <3>1
    <3> QED
      BY <2>3, <3>2 DEF push
  <2>4. CASE s \notin Dots
    <3>1. Append(p, s) \in C
      BY <2>4
    <3> QED
      BY <2>4, <3>1 DEF push, Dots
  <2> QED
    BY <2>1, <2>2, <2>3, <2>4 DEF Dots
<1> DEFINE T == {i \in 0..L : f[i] \notin C}
<1>4. T = {}
  <2>1. SUFFICES ASSUME T # {} PROVE FALSE
    OBVIOUS
  <2>2. PICK i \in T : \A j \in T : i <= j
    <3>1. T \in SUBSET Nat
      BY <1>1
    <3> HIDE DEF T
    <3> QED
      BY <2>1, <3>1, LeastNumber
  <2>3. i \in 0..L /\ f[i] \notin C /\ f[i] = round(f, q, i)
    BY <1>2
  <2>4. i # 0
    BY <2>3 DEF round
  <2>5. i \in 1..L /\ i - 1 \in 0..L /\ ~(i <= i - 1)
    BY <1>1, <2>3, <2>4
  <2>6. f[i - 1] \in C
    BY <2>2, <2>5
  <2> QED
    BY <1>1, <1>3, <2>3, <2>4, <2>5, <2>6 DEF round
<1> QED
  BY <1>1, <1>2, <1>4

LEMMA CleanKeeps ==
  ASSUME NEW S, NEW q \in Seq(S \ Dots)
  PROVE  Clean(q) = q
<1> DEFINE L == Len(q)
<1>1. L \in Nat /\ \A i \in 1..L : q[i] \notin Dots
  BY ElementOfSeq
<1>2. PICK f : f = [i \in 0..L |-> round(f, q, i)] /\ Clean(q) = f[L]
  BY CleanLoop
<1>3. ASSUME NEW i \in 1..L PROVE push(SubSeq(q, 1, i - 1), q[i]) = SubSeq(q, 1, i)
  <2>1. push(SubSeq(q, 1, i - 1), q[i]) = Append(SubSeq(q, 1, i - 1), q[i])
    BY <1>1 DEF push, Dots
  <2>2. Append(SubSeq(q, 1, i - 1), q[i]) = SubSeq(q, 1, i)
    BY <1>1
  <2> QED
    BY <2>1, <2>2
<1> DEFINE T == {i \in 0..L : f[i] # SubSeq(q, 1, i)}
<1>4. T = {}
  <2>1. SUFFICES ASSUME T # {} PROVE FALSE
    OBVIOUS
  <2>2. PICK i \in T : \A j \in T : i <= j
    <3>1. T \in SUBSET Nat
      BY <1>1
    <3> HIDE DEF T
    <3> QED
      BY <2>1, <3>1, LeastNumber
  <2>3. i \in 0..L /\ f[i] # SubSeq(q, 1, i) /\ f[i] = round(f, q, i)
    BY <1>2
  <2>4. i # 0
    BY <2>3 DEF round
  <2>5. i \in 1..L /\ i - 1 \in 0..L /\ ~(i <= i - 1)
    BY <1>1, <2>3, <2>4
  <2>6. f[i - 1] = SubSeq(q, 1, i - 1)
    BY <2>2, <2>5
  <2> QED
    BY <1>3, <2>3, <2>4, <2>5, <2>6 DEF round
<1>5. f[L] = SubSeq(q, 1, L)
  BY <1>1, <1>4
<1>6. SubSeq(q, 1, L) = q
  OBVIOUS
<1> QED
  BY <1>2, <1>5, <1>6

(***************************************************************************)
(* A path path.Clean has returned it returns as it is.                     *)
(***************************************************************************)
LEMMA CleanIdempotent ==
  ASSUME NEW S, NEW q \in Seq(S)
  PROVE  Clean(q) \in Seq(S) /\ Clean(Clean(q)) = Clean(q)
<1>1. Clean(q) \in Seq(S \ Dots)
  BY CleanReturns
<1>2. Clean(q) \in Seq(S)
  <2>1. ASSUME NEW p \in Seq(S \ Dots) PROVE p \in Seq(S)
    OBVIOUS
  <2> QED
    BY <1>1, <2>1
<1> QED
  BY <1>1, <1>2, CleanKeeps

(***************************************************************************)
(* The paths of requests are paths, and cleaning one gives one that is     *)
(* clean.                                                                  *)
(***************************************************************************)
LEMMA ReqPathFacts ==
  ASSUME NEW p \in ReqPath
  PROVE  /\ p.segs \in Seq(STRING) /\ p.slash \in BOOLEAN
         /\ cleanPath(p) \in ReqPath /\ cleanPath(cleanPath(p)) = cleanPath(p)
<1>1. ASSUME NEW q \in RawPath \cup Path
      PROVE  /\ q.segs \in Seq(STRING) /\ q.slash \in BOOLEAN
             /\ cleanPath(q) \in ReqPath
             /\ cleanPath(q).segs \in Seq(STRING) /\ cleanPath(q).slash \in BOOLEAN
             /\ cleanPath(cleanPath(q)) = cleanPath(q)
  <2>1. /\ q.segs \in Seq(STRING) /\ q.slash \in BOOLEAN
        /\ Clean(q.segs) \in Seq(STRING) /\ Clean(Clean(q.segs)) = Clean(q.segs)
    <3>1. q.segs \in Seq(STRING) /\ q.slash \in BOOLEAN
      BY DispatchAssumption
    <3> QED
      BY <3>1, CleanIdempotent
  <2>2. cleanPath(q) \in ReqPath
    BY DEF ReqPath
  <2>3. CASE Clean(q.segs) = <<>>
    <3>1. cleanPath(q) = Root /\ Root.segs = <<>> /\ Root.slash = TRUE
      BY <2>3 DEF cleanPath, Root
    <3>2. Clean(Root.segs) = <<>>
      BY <2>1, <2>3, <3>1
    <3>3. cleanPath(Root) = Root
      BY <3>2 DEF cleanPath
    <3>4. cleanPath(q).segs \in Seq(STRING) /\ cleanPath(q).slash \in BOOLEAN
      BY <2>1, <2>3, <3>1
    <3>5. cleanPath(cleanPath(q)) = cleanPath(q)
      BY <3>1, <3>3
    <3> QED
      BY <2>1, <2>2, <3>4, <3>5
  <2>4. CASE Clean(q.segs) # <<>>
    <3> DEFINE r == [segs |-> Clean(q.segs), slash |-> q.slash]
    <3>1. cleanPath(q) = r
      BY <2>4 DEF cleanPath
    <3>2. r.segs = Clean(q.segs) /\ r.slash = q.slash /\ Clean(r.segs) = Clean(q.segs)
      BY <2>1
    <3>3. cleanPath(r) = r
      BY <2>4, <3>2 DEF cleanPath
    <3> QED
      BY <2>1, <2>2, <3>1, <3>2, <3>3
  <2> QED
    BY <2>3, <2>4
<1>2. CASE p \in RawPath \cup Path
  BY <1>1, <1>2
<1>3. CASE p \notin RawPath \cup Path
  <2>1. PICK q \in RawPath \cup Path : p = cleanPath(q)
    BY <1>3 DEF ReqPath
  <2> QED
    BY <1>1, <2>1
<1> QED
  BY <1>2, <1>3

(***************************************************************************)
(* match returns an entry: among the keys that match a path one has the    *)
(* most segments.  A redirect is only returned for the path it is under.   *)
(***************************************************************************)
LEMMA MatchFacts ==
  ASSUME NEW mux \in [Key -> muxEntry], redirectsAreBare(mux), NEW method,
         NEW path, path.segs \in Seq(STRING)
  PROVE  LET h == match(mux, method, path) IN
         /\ h \in muxEntry
         /\ h.f = "redirect" => h.pattern.slash /\ path = noSlash(h.pattern)
<1> DEFINE ks == matching(mux, method, path)
           N == Len(path.segs)
           T == {n \in Nat : \E k \in ks : n + Len(k[2].segs) = N}
<1>1. CASE ks = {}
  BY <1>1, EntryTypes DEF match
<1>2. CASE ks # {}
  <2>1. N \in Nat
    OBVIOUS
  <2>2. ASSUME NEW k \in ks
        PROVE  k \in Key /\ Len(k[2].segs) \in Nat /\ Len(k[2].segs) <= N
    <3>1. k \in Key /\ k[2] \in Path /\ pathMatch(k[2], path)
      BY DEF matching, Key
    <3>2. Len(k[2].segs) \in Nat
      BY <3>1, PathAssumption
    <3> QED
      BY <2>1, <3>1, <3>2 DEF pathMatch
  <2>3. T # {}
    <3>1. PICK k \in ks : TRUE
      BY <1>2
    <3>2. N - Len(k[2].segs) \in Nat /\ (N - Len(k[2].segs)) + Len(k[2].segs) = N
      BY <2>1, <2>2
    <3>3. N - Len(k[2].segs) \in T
      BY <3>2
    <3> QED
      BY <3>3
  <2>4. PICK n \in T : \A j \in T : n <= j
    BY <2>3, LeastNumber
  <2>5. PICK best \in ks : n + Len(best[2].segs) = N
    BY <2>4
  <2>6. ASSUME NEW k \in ks PROVE Len(k[2].segs) <= Len(best[2].segs)
    <3>0. N - Len(k[2].segs) \in Nat /\ (N - Len(k[2].segs)) + Len(k[2].segs) = N
      BY <2>1, <2>2
    <3>1. N - Len(k[2].segs) \in T
      BY <3>0
    <3>2. n <= N - Len(k[2].segs) /\ n \in Nat
      BY <2>4, <3>1
    <3> QED
      BY <2>1, <2>2, <2>5, <3>2
  <2>7. best \in ties(mux, method, path)
    BY <2>5, <2>6 DEF ties
  <2> DEFINE k == CHOOSE k \in ties(mux, method, path) : TRUE
  <2>8. k \in ks /\ match(mux, method, path) = mux[k]
    BY <1>2, <2>7 DEF match, ties
  <2> HIDE DEF k
  <2>9. k \in Key /\ mux[k] \in muxEntry /\ pathMatch(k[2], path)
    BY <2>2, <2>8 DEF matching
  <2>10. ASSUME mux[k].f = "redirect"
         PROVE  mux[k].pattern.slash /\ path = noSlash(mux[k].pattern)
    <3>1. mux[k].pattern \in Path /\ mux[k].pattern.slash /\ k[2] = noSlash(mux[k].pattern)
      BY <2>9, <2>10 DEF redirectsAreBare, muxEntry
    <3>2. k[2].slash = FALSE
      BY <3>1, PathAssumption DEF noSlash
    <3> QED
      BY <2>9, <3>1, <3>2 DEF pathMatch
  <2> QED
    BY <2>8, <2>9, <2>10
<1> QED
  BY <1>1, <1>2

(***************************************************************************)
(* Redirects get fewer: the clean path has at most one ahead, and "/tree/" *)
(* none.                                                                   *)
(***************************************************************************)
LEMMA HopsShrink ==
  ASSUME NEW method, NEW path \in ReqPath
  PROVE  /\ pathHops(method, path) \in 0..2
         /\ (method # "CONNECT" /\ cleanPath(path) # path) =>
              pathHops(method, path) = 2 /\ pathHops(method, cleanPath(path)) <= 1
         /\ \A q \in Path :
              (/\ ~(method # "CONNECT" /\ cleanPath(path) # path)
               /\ q.slash /\ path = noSlash(q)) =>
                 pathHops(method, path) = 1 /\ pathHops(method, q) = 0
<1>1. pathHops(method, path) \in 0..2
  BY DEF pathHops
<1>2. ASSUME method # "CONNECT", cleanPath(path) # path
      PROVE  pathHops(method, path) = 2 /\ pathHops(method, cleanPath(path)) <= 1
  BY <1>2, ReqPathFacts DEF pathHops
<1>3. ASSUME NEW q \in Path, ~(method # "CONNECT" /\ cleanPath(path) # path),
             q.slash, path = noSlash(q)
      PROVE  pathHops(method, path) = 1 /\ pathHops(method, q) = 0
  <2>1. q = [segs |-> q.segs, slash |-> TRUE] /\ path = [segs |-> q.segs, slash |-> FALSE]
    BY <1>3, PathAssumption DEF noSlash
  <2>2. path.slash = FALSE /\ path.segs = q.segs
    BY <2>1
  <2>3. ASSUME cleanPath(path) = path PROVE cleanPath(q) = q
    <3>1. Clean(q.segs) # <<>>
      BY <2>2, <2>3 DEF cleanPath, Root
    <3>2. [segs |-> Clean(q.segs), slash |-> FALSE] = path
      BY <2>2, <2>3, <3>1 DEF cleanPath
    <3>3. Clean(q.segs) = q.segs
      BY <2>1, <3>2
    <3> QED
      BY <1>3, <2>1, <3>1, <3>3 DEF cleanPath
  <2> QED
    BY <1>3, <2>2, <2>3 DEF pathHops
<1> QED
  BY <1>1, <1>2, <1>3

-----------------------------------------------------------------------------
(* The initial states. *)

(***************************************************************************)
(* Init establishes DInv.                                                  *)
(***************************************************************************)
LEMMA InitDInv == Init => DInv
<1> SUFFICES ASSUME Init PROVE DInv
  OBVIOUS
<1>1. Root \in ReqPath
  BY EntryTypes DEF ReqPath
<1>2. noRequest \in ReqType
  BY <1>1, EntryTypes DEF noRequest, ReqType, PC
<1>3. TypeInv
  <2>1. m \in [Key -> muxEntry] /\ redirectsAreBare(m)
    BY EntryTypes DEF Init, NewXMux, redirectsAreBare
  <2> QED
    BY <1>2, <2>1 DEF Init, TypeInv
<1>4. \A c \in Client : fine(req[c], muxes[c], levels[c]) /\ Fresh(c)
  BY DEF Init, fine, Fresh, routed, bounded, answered, noRequest, pending
<1>5. loggedAll
  BY DEF Init, loggedAll, sum, Counter
<1> QED
  BY <1>3, <1>4, <1>5 DEF DInv

-----------------------------------------------------------------------------
(* The steps. *)

(***************************************************************************)
(* A step of a request: the counters may change with it.                   *)
(***************************************************************************)
LEMMA RequestStep ==
  ASSUME DInv, NEW c \in Client, NEW r \in ReqType, req' = [req EXCEPT ![c] = r],
         UNCHANGED <<settings, history>>,
         cnt' \in [Counter -> Nat], logged' \in Nat, plain' \in Nat, loggedAll',
         req[c].pc # "idle", fine(r, muxes[c], levels[c])
  PROVE  DInv'
<1>1. /\ req' \in [Client -> ReqType] /\ req'[c] = r
      /\ \A d \in Client : d # c => req'[d] = req[d]
  BY DEF DInv, TypeInv
<1>2. TypeInv'
  BY <1>1 DEF DInv, TypeInv, settings, history
<1>3. ASSUME NEW d \in Client
      PROVE  fine(req'[d], muxes'[d], levels'[d]) /\ Fresh(d)'
  <2>1. muxes'[d] = muxes[d] /\ levels'[d] = levels[d] /\ m' = m /\ level' = level
        /\ started' = started
    BY DEF settings, history, started
  <2>2. fine(req[d], muxes[d], levels[d]) /\ Fresh(d)
    BY DEF DInv
  <2>3. CASE d = c
    BY <1>1, <2>1, <2>2, <2>3 DEF Fresh
  <2>4. CASE d # c
    BY <1>1, <2>1, <2>2, <2>4 DEF Fresh
  <2> QED
    BY <2>3, <2>4
<1> QED
  BY <1>2, <1>3 DEF DInv

(***************************************************************************)
(* An answer is counted, and logged unless the address was not parsed.     *)
(***************************************************************************)
LEMMA CountedStep ==
  ASSUME DInv, NEW k \in Counter, counted(k)
  PROVE  /\ cnt' \in [Counter -> Nat] /\ logged' \in Nat /\ plain' \in Nat
         /\ loggedAll'
<1>1. cnt \in [Counter -> Nat] /\ logged \in Nat /\ plain \in Nat /\ loggedAll
  BY DEF DInv, TypeInv
<1>2. /\ cnt' = [cnt EXCEPT ![k] = @ + 1] /\ plain' = plain
      /\ logged' = logged + (IF k = "ParseFailed" THEN 0 ELSE 1)
  BY DEF counted
<1>3. cnt' \in [Counter -> Nat] /\ logged' \in Nat /\ plain' \in Nat
  BY <1>1, <1>2
<1>4. \A j \in Counter : cnt'[j] = IF j = k THEN cnt[j] + 1 ELSE cnt[j]
  BY <1>1, <1>2
<1>5. /\ cnt["ParseFailed"] \in Nat /\ cnt["NotFound"] \in Nat /\ cnt["GeoDeny"] \in Nat
      /\ cnt["IPDeny"] \in Nat /\ cnt["Success"] \in Nat
  BY <1>1 DEF Counter
<1>6. loggedAll'
  BY <1>1, <1>2, <1>4, <1>5 DEF loggedAll, sum, Counter
<1> QED
  BY <1>3, <1>6

(***************************************************************************)
(* The counters stay, or only the answers before any counter do.           *)
(***************************************************************************)
LEMMA UncountedStep ==
  ASSUME DInv, UNCHANGED <<cnt, logged>>, plain' \in {plain, plain + 1}
  PROVE  /\ cnt' \in [Counter -> Nat] /\ logged' \in Nat /\ plain' \in Nat
         /\ loggedAll'
BY DEF DInv, TypeInv, loggedAll, sum

(***************************************************************************)
(* A request that ends.                                                    *)
(***************************************************************************)
LEMMA DoneIsFine ==
  ASSUME DInv, NEW c \in Client, req[c].pc \in {"received", "host", "access", "geo"},
         req' = done(c)
  PROVE  \E r \in ReqType : /\ req' = [req EXCEPT ![c] = r]
                            /\ fine(r, muxes[c], levels[c])
<1> DEFINE r == [req[c] EXCEPT !.pc = "done", !.answers = @ + 1]
<1>1. req \in [Client -> ReqType] /\ fine(req[c], muxes[c], levels[c])
  BY DEF DInv, TypeInv
<1>4. req[c] \in ReqType /\ req[c].hops \in Nat /\ req[c].answers \in Nat
  BY <1>1 DEF ReqType
<1>2. /\ r \in ReqType /\ r.pc = "done" /\ r.hops = req[c].hops
      /\ r.answers = req[c].answers + 1
  <2>1. "done" \in PC /\ req[c].answers + 1 \in Nat
    BY <1>4 DEF PC
  <2> QED
    BY <1>4, <2>1 DEF ReqType
<1>3. req' = [req EXCEPT ![c] = r]
  BY <1>1 DEF done, ReqType
<1> HIDE DEF r
<1>5. fine(r, muxes[c], levels[c])
  BY <1>1, <1>2, <1>4 DEF fine, routed, bounded, answered, pending
<1> QED
  BY <1>2, <1>3, <1>5

(***************************************************************************)
(* A request whose answer is a redirect.                                   *)
(***************************************************************************)
LEMMA FollowIsFine ==
  ASSUME DInv, NEW c \in Client, req[c].pc \in {"received", "geo"},
         NEW TLS \in BOOLEAN, NEW path \in ReqPath, req' = follow(c, TLS, path),
         req[c].hops + 1 + ahead(req[c].method, path, TLS) <= 3
  PROVE  \E r \in ReqType : /\ req' = [req EXCEPT ![c] = r]
                            /\ fine(r, muxes[c], levels[c])
<1> DEFINE r == [req[c] EXCEPT !.pc = "following", !.TLS = TLS, !.target = path,
                               !.answers = @ + 1]
<1>1. req \in [Client -> ReqType] /\ fine(req[c], muxes[c], levels[c])
  BY DEF DInv, TypeInv
<1>4. req[c] \in ReqType /\ req[c].hops \in Nat /\ req[c].answers \in Nat
  BY <1>1 DEF ReqType
<1>2. /\ r \in ReqType /\ r.pc = "following" /\ r.hops = req[c].hops /\ r.TLS = TLS
      /\ r.method = req[c].method /\ r.target = path /\ r.answers = req[c].answers + 1
  <2>1. "following" \in PC /\ req[c].answers + 1 \in Nat
    BY <1>4 DEF PC
  <2> QED
    BY <1>4, <2>1 DEF ReqType
<1>3. req' = [req EXCEPT ![c] = r]
  BY <1>1 DEF follow, ReqType
<1> HIDE DEF r
<1>5. fine(r, muxes[c], levels[c])
  BY <1>1, <1>2, <1>4 DEF fine, routed, bounded, answered, pending
<1> QED
  BY <1>2, <1>3, <1>5

(***************************************************************************)
(* What Handler returns: an entry that the multiplexer has for the path,   *)
(* or the redirect to the clean path; a redirect brings the client closer. *)
(***************************************************************************)
LEMMA HandlerFacts ==
  ASSUME NEW mux \in [Key -> muxEntry], redirectsAreBare(mux), NEW method,
         NEW path \in ReqPath
  PROVE  LET x == Handler(mux, method, path) IN
         /\ x.h \in muxEntry /\ x.target \in ReqPath
         /\ x.h = redirect \/ x.h = match(mux, method, path)
         /\ x.h.f = "redirect" =>
              1 + pathHops(method, x.target) <= pathHops(method, path)
<1> DEFINE x == Handler(mux, method, path)
           h == match(mux, method, path)
<1>1. CASE method # "CONNECT" /\ cleanPath(path) # path
  <2>1. x = [h |-> redirect, target |-> cleanPath(path)]
    BY <1>1 DEF Handler
  <2>2. x.h = redirect /\ x.target = cleanPath(path)
    BY <2>1
  <2>3. cleanPath(path) \in ReqPath
    BY ReqPathFacts
  <2>4. pathHops(method, cleanPath(path)) \in 0..2
    BY <2>3, HopsShrink
  <2>5. 1 + pathHops(method, x.target) <= pathHops(method, path)
    BY <1>1, <2>2, <2>4, HopsShrink
  <2> QED
    BY <2>2, <2>3, <2>5, EntryTypes
<1>2. CASE ~(method # "CONNECT" /\ cleanPath(path) # path)
  <2>1. x = [h |-> h, target |-> h.pattern]
    BY <1>2 DEF Handler
  <2>2. x.h = h /\ x.target = h.pattern
    BY <2>1
  <2>3. path.segs \in Seq(STRING)
    BY ReqPathFacts
  <2>4. h \in muxEntry /\ (h.f = "redirect" => h.pattern.slash /\ path = noSlash(h.pattern))
    BY <2>3, MatchFacts
  <2> HIDE DEF h, x
  <2>5. h.pattern \in Path /\ h.pattern \in ReqPath
    BY <2>4 DEF muxEntry, ReqPath
  <2>6. h.f = "redirect" => 1 + pathHops(method, h.pattern) <= pathHops(method, path)
    BY <1>2, <2>4, <2>5, HopsShrink
  <2>7. /\ x.h \in muxEntry /\ x.target \in ReqPath /\ x.h = h
        /\ x.h.f = "redirect" =>
              1 + pathHops(method, x.target) <= pathHops(method, path)
    BY <2>2, <2>4, <2>5, <2>6
  <2> QED
    BY <2>7 DEF h, x
<1> QED
  BY <1>1, <1>2

(***************************************************************************)
(* The facts about a request that every step of it starts from.            *)
(***************************************************************************)
LEMMA RequestFacts ==
  ASSUME DInv, NEW c \in Client
  PROVE  /\ req \in [Client -> ReqType] /\ req[c] \in ReqType
         /\ req[c].method \in Method \cup {"GET"} /\ req[c].path \in ReqPath
         /\ req[c].target \in ReqPath /\ req[c].TLS \in BOOLEAN
         /\ req[c].h \in muxEntry /\ req[c].host \in Host \cup {noHost}
         /\ req[c].remote \in Host \cup {noHost}
         /\ req[c].forwarded \in Host \cup {noHost}
         /\ req[c].hops \in Nat /\ req[c].answers \in Nat
         /\ fine(req[c], muxes[c], levels[c]) /\ Fresh(c)
<1>1. req \in [Client -> ReqType] /\ req[c] \in ReqType
  BY DEF DInv, TypeInv
<1> QED
  BY <1>1 DEF DInv, ReqType

(***************************************************************************)
(* The redirect to TLS.                                                    *)
(***************************************************************************)
LEMMA RedirectTLSKeeps ==
  ASSUME DInv, NEW c \in Client, RedirectTLS(c)
  PROVE  DInv'
<1>1. /\ req[c].pc = "received" /\ ~req[c].TLS /\ req' = follow(c, TRUE, req[c].path)
      /\ UNCHANGED <<settings, history>> /\ UNCHANGED <<cnt, logged>>
      /\ plain' \in {plain, plain + 1}
  BY DEF RedirectTLS, at, others
<1>2. req[c].path \in ReqPath /\ req[c].hops \in Nat /\ fine(req[c], muxes[c], levels[c])
  BY RequestFacts
<1>3. pathHops(req[c].method, req[c].path) \in 0..2
  BY <1>2, HopsShrink
<1>4. req[c].hops + 1 + ahead(req[c].method, req[c].path, TRUE) <= 3
  BY <1>1, <1>2, <1>3 DEF fine, bounded, ahead
<1>5. \E r \in ReqType : req' = [req EXCEPT ![c] = r] /\ fine(r, muxes[c], levels[c])
  BY <1>1, <1>2, <1>4, FollowIsFine
<1> QED
  BY <1>1, <1>5, UncountedStep, RequestStep

(***************************************************************************)
(* The refusal of "*".                                                     *)
(***************************************************************************)
LEMMA BadRequestKeeps ==
  ASSUME DInv, NEW c \in Client, BadRequest(c)
  PROVE  DInv'
<1>1. /\ req[c].pc = "received" /\ req' = done(c)
      /\ UNCHANGED <<settings, history>> /\ UNCHANGED <<cnt, logged>>
      /\ plain' \in {plain, plain + 1}
  BY DEF BadRequest, at, others
<1>2. \E r \in ReqType : req' = [req EXCEPT ![c] = r] /\ fine(r, muxes[c], levels[c])
  BY <1>1, DoneIsFine
<1> QED
  BY <1>1, <1>2, UncountedStep, RequestStep

(***************************************************************************)
(* A request ends with an answer that is counted.                          *)
(***************************************************************************)
LEMMA DoneCounted ==
  ASSUME DInv, NEW c \in Client, NEW k \in Counter, counted(k), req' = done(c),
         req[c].pc \in {"host", "access", "geo"}, UNCHANGED <<settings, history>>
  PROVE  DInv'
<1>1. \E r \in ReqType : req' = [req EXCEPT ![c] = r] /\ fine(r, muxes[c], levels[c])
  BY DoneIsFine
<1>2. req[c].pc # "idle"
  OBVIOUS
<1> QED
  BY <1>1, <1>2, CountedStep, RequestStep

(***************************************************************************)
(* The handler is looked up in the multiplexer in force.                   *)
(***************************************************************************)
LEMMA LookUpKeeps ==
  ASSUME DInv, NEW c \in Client, LookUp(c)
  PROVE  DInv'
<1> DEFINE x == Handler(m, req[c].method, req[c].path)
           r == [req[c] EXCEPT !.pc = "host", !.h = x.h, !.target = x.target]
<1>0. /\ req[c].pc = "received"
      /\ req' = [req EXCEPT ![c].pc = "host", ![c].h = x.h, ![c].target = x.target]
      /\ UNCHANGED <<settings, history>> /\ UNCHANGED <<cnt, logged, plain>>
  BY DEF LookUp, at, others, tally
<1>1. /\ req \in [Client -> ReqType] /\ req[c] \in ReqType /\ req[c].path \in ReqPath
      /\ req[c].hops \in Nat /\ fine(req[c], muxes[c], levels[c])
      /\ m \in [Key -> muxEntry] /\ redirectsAreBare(m) /\ m \in muxes[c]
  BY <1>0, RequestFacts DEF DInv, TypeInv, Fresh
<1>2. /\ x.h \in muxEntry /\ x.target \in ReqPath
      /\ x.h = redirect \/ x.h = match(m, req[c].method, req[c].path)
      /\ x.h.f = "redirect" =>
           1 + pathHops(req[c].method, x.target) <= pathHops(req[c].method, req[c].path)
  BY <1>1, HandlerFacts
<1> HIDE DEF x
<1>3. req' = [req EXCEPT ![c] = r]
  BY <1>0, <1>1 DEF ReqType
<1>4. /\ r \in ReqType /\ r.pc = "host" /\ r.method = req[c].method /\ r.path = req[c].path
      /\ r.TLS = req[c].TLS /\ r.h = x.h /\ r.target = x.target /\ r.hops = req[c].hops
      /\ r.answers = req[c].answers
  BY <1>1, <1>2 DEF ReqType, PC
<1> HIDE DEF r
<1>5. routed(r, muxes[c], levels[c])
  BY <1>1, <1>2, <1>4 DEF routed
<1>6. /\ pathHops(req[c].method, req[c].path) \in 0..2
      /\ pathHops(req[c].method, x.target) \in 0..2
  BY <1>1, <1>2, HopsShrink
<1>7. bounded(r)
  BY <1>0, <1>1, <1>2, <1>4, <1>6 DEF fine, bounded, ahead, pending
<1>8. answered(r)
  BY <1>0, <1>1, <1>4 DEF fine, answered
<1>9. fine(r, muxes[c], levels[c])
  BY <1>5, <1>7, <1>8 DEF fine
<1>10. plain' \in {plain, plain + 1}
  BY <1>0
<1> QED
  BY <1>0, <1>3, <1>4, <1>9, <1>10, UncountedStep, RequestStep

(***************************************************************************)
(* A request that waits for its answer takes its next step: what was found *)
(* of its route stays.                                                     *)
(***************************************************************************)
LEMMA PendingStep ==
  ASSUME DInv, NEW c \in Client, req[c].pc \in pending, NEW to \in {"access", "geo"},
         NEW host \in Host, req' = [req EXCEPT ![c].pc = to, ![c].host = host],
         req[c].h # nilEntry,
         to = "geo" => \E lv \in levels[c] : lv[host] >= req[c].h.access,
         UNCHANGED <<settings, history, cnt, logged, plain>>
  PROVE  DInv'
<1> DEFINE r == [req[c] EXCEPT !.pc = to, !.host = host]
<1>1. /\ req \in [Client -> ReqType] /\ req[c] \in ReqType
      /\ fine(req[c], muxes[c], levels[c])
  BY RequestFacts
<1>2. req' = [req EXCEPT ![c] = r]
  BY <1>1 DEF ReqType
<1>3. /\ r \in ReqType /\ r.pc = to /\ r.method = req[c].method /\ r.path = req[c].path
      /\ r.TLS = req[c].TLS /\ r.h = req[c].h /\ r.target = req[c].target
      /\ r.hops = req[c].hops /\ r.answers = req[c].answers /\ r.host = host
  BY <1>1 DEF ReqType, PC
<1> HIDE DEF r
<1>4. routed(r, muxes[c], levels[c])
  BY <1>1, <1>3 DEF fine, routed, pending
<1>5. bounded(r) /\ answered(r)
  BY <1>1, <1>3 DEF fine, bounded, answered, pending
<1>6. fine(r, muxes[c], levels[c])
  BY <1>4, <1>5 DEF fine
<1>7. plain' \in {plain, plain + 1} /\ req[c].pc # "idle"
  BY DEF pending
<1> QED
  BY <1>2, <1>3, <1>6, <1>7, UncountedStep, RequestStep

(***************************************************************************)
(* The host of the request is known, or the request ends for want of a     *)
(* handler.                                                                *)
(***************************************************************************)
LEMMA HostKnownKeeps ==
  ASSUME DInv, NEW c \in Client, HostKnown(c)
  PROVE  DInv'
<1>1. /\ req[c].pc = "host" /\ hostOf(c) # noHost /\ UNCHANGED <<settings, history>>
  BY DEF HostKnown, at, others
<1>2. CASE req[c].h = nilEntry
  <2>1. req' = done(c) /\ counted("NotFound") /\ "NotFound" \in Counter
    BY <1>2 DEF HostKnown, Counter
  <2> QED
    BY <1>1, <2>1, DoneCounted
<1>3. CASE req[c].h # nilEntry
  <2>1. /\ req' = [req EXCEPT ![c].pc = "access", ![c].host = hostOf(c)]
        /\ UNCHANGED <<cnt, logged, plain>>
    BY <1>3 DEF HostKnown, tally
  <2>2. hostOf(c) \in Host
    BY <1>1, RequestFacts DEF hostOf
  <2>3. req[c].pc \in pending
    BY <1>1 DEF pending
  <2> HIDE DEF hostOf
  <2> QED
    BY <1>1, <1>3, <2>1, <2>2, <2>3, PendingStep
<1> QED
  BY <1>2, <1>3

(***************************************************************************)
(* The access level is asked for.                                          *)
(***************************************************************************)
LEMMA CheckAccessKeeps ==
  ASSUME DInv, NEW c \in Client, CheckAccess(c)
  PROVE  DInv'
<1>1. /\ req[c].pc = "access" /\ UNCHANGED <<settings, history>>
  BY DEF CheckAccess, at, others
<1>2. CASE ~sufficient(level[req[c].host], req[c].h.access)
  <2>1. req' = done(c) /\ counted("IPDeny") /\ "IPDeny" \in Counter
    BY <1>2 DEF CheckAccess, Counter
  <2> QED
    BY <1>1, <2>1, DoneCounted
<1>3. CASE sufficient(level[req[c].host], req[c].h.access)
  <2>1. req' = [req EXCEPT ![c].pc = "geo"] /\ UNCHANGED <<cnt, logged, plain>>
    BY <1>3 DEF CheckAccess, tally
  <2>2. /\ req \in [Client -> ReqType] /\ req[c].host \in Host /\ req[c].h # nilEntry
        /\ level \in levels[c]
    BY <1>1, RequestFacts DEF fine, routed, Fresh
  <2>3. \E lv \in levels[c] : lv[req[c].host] >= req[c].h.access
    BY <1>3, <2>2 DEF sufficient
  <2>4. req' = [req EXCEPT ![c].pc = "geo", ![c].host = req[c].host]
    BY <2>1, <2>2 DEF ReqType
  <2>5. req[c].pc \in pending
    BY <1>1 DEF pending
  <2> QED
    BY <1>1, <2>1, <2>2, <2>3, <2>4, <2>5, PendingStep
<1> QED
  BY <1>2, <1>3

(***************************************************************************)
(* The handler runs.                                                       *)
(***************************************************************************)
LEMMA ServeKeeps ==
  ASSUME DInv, NEW c \in Client, Serve(c)
  PROVE  DInv'
<1>1. /\ req[c].pc = "geo" /\ counted("Success") /\ "Success" \in Counter
      /\ UNCHANGED <<settings, history>>
  BY DEF Serve, at, others, Counter
<1>2. /\ req \in [Client -> ReqType] /\ req[c] \in ReqType /\ req[c].target \in ReqPath
      /\ req[c].TLS \in BOOLEAN /\ req[c].hops \in Nat /\ req[c].answers \in Nat
      /\ fine(req[c], muxes[c], levels[c])
  BY RequestFacts
<1>3. \E r \in ReqType : req' = [req EXCEPT ![c] = r] /\ fine(r, muxes[c], levels[c])
  <2>1. CASE req[c].h.f = "redirect"
    <3>1. req' = follow(c, req[c].TLS, req[c].target)
      BY <2>1 DEF Serve
    <3>2. req[c].hops + 1 + ahead(req[c].method, req[c].target, req[c].TLS) <= 3
      BY <1>1, <1>2, <2>1 DEF fine, bounded, pending
    <3> QED
      BY <1>1, <1>2, <3>1, <3>2, FollowIsFine
  <2>2. CASE req[c].h.f # "redirect"
    <3> DEFINE r == [req[c] EXCEPT !.pc = "served", !.answers = @ + 1]
    <3>1. req' = [req EXCEPT ![c] = r]
      BY <1>2, <2>2 DEF Serve, ReqType
    <3>2. "served" \in PC /\ req[c].answers + 1 \in Nat
      BY <1>2 DEF PC
    <3>3. /\ r \in ReqType /\ r.pc = "served" /\ r.method = req[c].method
          /\ r.path = req[c].path /\ r.h = req[c].h /\ r.host = req[c].host
          /\ r.hops = req[c].hops /\ r.answers = req[c].answers + 1
      BY <1>2, <3>2 DEF ReqType
    <3> HIDE DEF r
    <3>4. req[c].h # redirect
      BY <2>2, EntryTypes
    <3>5. routed(r, muxes[c], levels[c])
      BY <1>1, <1>2, <3>3, <3>4 DEF fine, routed, pending
    <3>6. bounded(r) /\ answered(r)
      BY <1>1, <1>2, <3>3 DEF fine, bounded, answered, pending
    <3> QED
      BY <3>1, <3>3, <3>5, <3>6 DEF fine
  <2> QED
    BY <2>1, <2>2
<1> QED
  BY <1>1, <1>3, CountedStep, RequestStep

(***************************************************************************)
(* The handler panics.                                                     *)
(***************************************************************************)
LEMMA AbortKeeps ==
  ASSUME DInv, NEW c \in Client, HandlerAborts(c)
  PROVE  DInv'
<1> DEFINE r == [req[c] EXCEPT !.pc = "aborted"]
<1>1. /\ req[c].pc = "geo" /\ req[c].h.f # "redirect" /\ req' = [req EXCEPT ![c] = r]
      /\ UNCHANGED <<settings, history, cnt, logged, plain>>
  BY DEF HandlerAborts, at, others, tally
<1>2. req[c] \in ReqType /\ "aborted" \in PC /\ fine(req[c], muxes[c], levels[c])
  BY RequestFacts DEF PC
<1>3. /\ r \in ReqType /\ r.pc = "aborted" /\ r.method = req[c].method
      /\ r.path = req[c].path /\ r.h = req[c].h /\ r.host = req[c].host
      /\ r.hops = req[c].hops /\ r.answers = req[c].answers
  BY <1>2 DEF ReqType
<1>4. cnt' \in [Counter -> Nat] /\ logged' \in Nat /\ plain' \in Nat /\ loggedAll'
  BY <1>1 DEF DInv, TypeInv, loggedAll, sum
<1> HIDE DEF r
<1>5. req[c].h # redirect
  BY <1>1, EntryTypes
<1>6. routed(r, muxes[c], levels[c])
  BY <1>1, <1>2, <1>3, <1>5 DEF fine, routed, pending
<1>7. bounded(r) /\ answered(r)
  BY <1>1, <1>2, <1>3 DEF fine, bounded, answered, pending
<1> QED
  BY <1>1, <1>3, <1>4, <1>6, <1>7, RequestStep DEF fine

(***************************************************************************)
(* A request comes, the first of a client or the one after a redirect.     *)
(***************************************************************************)
LEMMA NewRequest ==
  ASSUME DInv, started, NEW c \in Client, NEW r \in ReqType,
         req' = [req EXCEPT ![c] = r], r.pc = "received", bounded(r), answered(r),
         muxes' = [muxes EXCEPT ![c] = {m}], levels' = [levels EXCEPT ![c] = {level}],
         UNCHANGED <<settings, cnt, logged, plain>>
  PROVE  DInv'
<1>1. /\ req' \in [Client -> ReqType] /\ req'[c] = r
      /\ \A d \in Client : d # c => req'[d] = req[d]
  BY DEF DInv, TypeInv
<1>2. /\ muxes'[c] = {m} /\ levels'[c] = {level}
      /\ \A d \in Client : d # c => muxes'[d] = muxes[d] /\ levels'[d] = levels[d]
  BY DEF DInv, TypeInv
<1>3. TypeInv'
  BY <1>1 DEF DInv, TypeInv, settings
<1>4. m' = m /\ level' = level /\ started' = started
  BY DEF settings, started
<1>5. ASSUME NEW d \in Client
      PROVE  fine(req'[d], muxes'[d], levels'[d]) /\ Fresh(d)'
  <2>1. CASE d = c
    <3>1. routed(r, {m}, {level})
      BY DEF routed, pending
    <3> QED
      BY <1>1, <1>2, <1>4, <2>1, <3>1 DEF Fresh, fine
  <2>2. CASE d # c
    BY <1>1, <1>2, <1>4, <2>2 DEF DInv, Fresh
  <2> QED
    BY <2>1, <2>2
<1>6. loggedAll'
  BY DEF DInv, loggedAll, sum
<1> QED
  BY <1>3, <1>5, <1>6 DEF DInv

(***************************************************************************)
(* A client asks.                                                          *)
(***************************************************************************)
LEMMA ArriveKeeps ==
  ASSUME DInv, NEW c \in Client, NEW method \in Method, NEW path \in RawPath,
         NEW TLS \in BOOLEAN, NEW forwarded \in Host \cup {noHost},
         NEW remote \in Host \cup {noHost},
         Arrive(c, method, path, TLS, forwarded, remote)
  PROVE  DInv'
<1> DEFINE r == [noRequest EXCEPT
                   !.pc = "received", !.method = method, !.path = path, !.TLS = TLS,
                   !.forwarded = forwarded, !.remote = remote]
<1>1. path \in ReqPath /\ Root \in ReqPath /\ "received" \in PC
  BY EntryTypes DEF ReqPath, PC
<1>2. /\ r \in ReqType /\ r.pc = "received" /\ r.method = method /\ r.path = path
      /\ r.TLS = TLS /\ r.hops = 0 /\ r.answers = 0
  BY <1>1, EntryTypes DEF noRequest, ReqType
<1>3. /\ started /\ req' = [req EXCEPT ![c] = r]
      /\ muxes' = [muxes EXCEPT ![c] = {m}] /\ levels' = [levels EXCEPT ![c] = {level}]
      /\ UNCHANGED <<settings, cnt, logged, plain>>
  BY DEF Arrive, tally
<1> HIDE DEF r
<1>4. pathHops(method, path) \in 0..2
  BY <1>1, HopsShrink
<1>5. bounded(r) /\ answered(r)
  BY <1>2, <1>4 DEF bounded, answered, ahead, pending
<1> QED
  BY <1>2, <1>3, <1>5, NewRequest

(***************************************************************************)
(* A client follows a redirect.                                            *)
(***************************************************************************)
LEMMA FollowKeeps ==
  ASSUME DInv, NEW c \in Client, Follow(c)
  PROVE  DInv'
<1> DEFINE r == [noRequest EXCEPT
                   !.pc = "received", !.method = req[c].method, !.path = req[c].target,
                   !.TLS = req[c].TLS, !.forwarded = req[c].forwarded,
                   !.remote = req[c].remote, !.hops = req[c].hops + 1,
                   !.answers = req[c].answers]
<1>0. /\ req[c].pc = "following" /\ req' = [req EXCEPT ![c] = r]
      /\ muxes' = [muxes EXCEPT ![c] = {m}] /\ levels' = [levels EXCEPT ![c] = {level}]
      /\ UNCHANGED <<settings, cnt, logged, plain>>
  BY DEF Follow, at, tally
<1>1. /\ req[c].method \in Method \cup {"GET"} /\ req[c].target \in ReqPath
      /\ req[c].TLS \in BOOLEAN /\ req[c].remote \in Host \cup {noHost}
      /\ req[c].forwarded \in Host \cup {noHost}
      /\ req[c].hops \in Nat /\ req[c].answers \in Nat
      /\ fine(req[c], muxes[c], levels[c]) /\ started
  BY <1>0, RequestFacts DEF Fresh
<1>2. Root \in ReqPath /\ "received" \in PC /\ req[c].hops + 1 \in Nat
  BY <1>1, EntryTypes DEF ReqPath, PC
<1>3. /\ r \in ReqType /\ r.pc = "received" /\ r.method = req[c].method
      /\ r.path = req[c].target /\ r.TLS = req[c].TLS /\ r.hops = req[c].hops + 1
      /\ r.answers = req[c].answers
  BY <1>1, <1>2, EntryTypes DEF noRequest, ReqType
<1> HIDE DEF r
<1>4. pathHops(req[c].method, req[c].target) \in 0..2
  BY <1>1, HopsShrink
<1>5. bounded(r)
  BY <1>0, <1>1, <1>3, <1>4 DEF fine, bounded, ahead, pending
<1>6. answered(r)
  BY <1>0, <1>1, <1>3 DEF fine, answered
<1> QED
  BY <1>0, <1>1, <1>3, <1>5, <1>6, NewRequest

(***************************************************************************)
(* Handlers or settings change: what a request was told stays among what   *)
(* was in force since it came.                                             *)
(***************************************************************************)
LEMMA ChangeKeeps ==
  ASSUME DInv, change, m' \in [Key -> muxEntry], redirectsAreBare(m'), level' \in LevelSet
  PROVE  DInv'
<1>1. /\ started /\ started' /\ UNCHANGED <<req, cnt, logged, plain, initPos>>
      /\ muxes' = [c \in Client |-> IF req[c].pc = "idle" THEN {} ELSE muxes[c] \cup {m'}]
      /\ levels' = [c \in Client |->
                     IF req[c].pc = "idle" THEN {} ELSE levels[c] \cup {level'}]
  BY DEF change, tally, started
<1>2. /\ muxes' \in [Client -> SUBSET [Key -> muxEntry]]
      /\ levels' \in [Client -> SUBSET LevelSet]
  BY <1>1 DEF DInv, TypeInv
<1>3. TypeInv'
  BY <1>1, <1>2 DEF DInv, TypeInv
<1>4. ASSUME NEW c \in Client
      PROVE  fine(req'[c], muxes'[c], levels'[c]) /\ Fresh(c)'
  <2>1. fine(req[c], muxes[c], levels[c]) /\ req' = req
    BY <1>1 DEF DInv
  <2>2. CASE req[c].pc = "idle"
    <3>1. routed(req[c], muxes'[c], levels'[c])
      BY <2>2 DEF routed, pending
    <3> QED
      BY <2>1, <2>2, <3>1 DEF fine, Fresh
  <2>3. CASE req[c].pc # "idle"
    <3>1. muxes'[c] = muxes[c] \cup {m'} /\ levels'[c] = levels[c] \cup {level'}
      BY <1>1, <2>3
    <3>2. routed(req[c], muxes'[c], levels'[c])
      BY <2>1, <3>1 DEF fine, routed
    <3> QED
      BY <1>1, <2>1, <3>1, <3>2 DEF fine, Fresh
  <2> QED
    BY <2>2, <2>3
<1>5. loggedAll'
  BY <1>1 DEF DInv, loggedAll, sum
<1> QED
  BY <1>3, <1>4, <1>5 DEF DInv

(***************************************************************************)
(* netInit registers a handler; no request has come yet.                   *)
(***************************************************************************)
LEMMA NetInitKeeps ==
  ASSUME DInv, NetInit
  PROVE  DInv'
<1> DEFINE u == InitHandlers[initPos + 1]
<1>1. /\ initPos \in Nat /\ initPos < Len(InitHandlers) /\ initPos' = initPos + 1
      /\ m' = Handle(m, u)
      /\ UNCHANGED <<level, req, muxes, levels, cnt, logged, plain>>
  BY DEF NetInit, history, tally, DInv, TypeInv
<1>2. u \in UriHandler
  BY <1>1, DispatchAssumption
<1> HIDE DEF u
<1>3. m' \in [Key -> muxEntry] /\ redirectsAreBare(m')
  BY <1>1, <1>2, HandleBare DEF DInv, TypeInv
<1>4. TypeInv'
  BY <1>1, <1>3 DEF DInv, TypeInv
<1>5. \A c \in Client : req[c].pc = "idle"
  BY <1>1 DEF DInv, Fresh, started
<1>6. \A c \in Client : fine(req'[c], muxes'[c], levels'[c]) /\ Fresh(c)'
  BY <1>1, <1>5 DEF DInv, Fresh
<1>7. loggedAll'
  BY <1>1 DEF DInv, loggedAll, sum
<1> QED
  BY <1>4, <1>6, <1>7 DEF DInv

(***************************************************************************)
(* DInv is inductive.                                                      *)
(***************************************************************************)
LEMMA NextDInv == DInv /\ [Next]_vars => DInv'
<1> SUFFICES ASSUME DInv, [Next]_vars PROVE DInv'
  OBVIOUS
<1>0. m \in [Key -> muxEntry] /\ redirectsAreBare(m) /\ level \in LevelSet
  BY DEF DInv, TypeInv
<1>1. ASSUME NEW u \in HandlerSet, HandleFunc(u) PROVE DInv'
  <2>1. u \in UriHandler
    BY DispatchAssumption
  <2>2. m' = Handle(m, u) /\ level' = level /\ change
    BY <1>1 DEF HandleFunc
  <2> QED
    BY <1>0, <2>1, <2>2, HandleBare, ChangeKeeps
<1>2. ASSUME NEW u \in HandlerSet, RemoveHandler(u) PROVE DInv'
  <2>1. m' = RemoveHandleFunc(m, u.method, u.pattern) /\ level' = level /\ change
    BY <1>2 DEF RemoveHandler
  <2> QED
    BY <1>0, <2>1, RemoveBare, ChangeKeeps
<1>3. CASE Reconfigure
  BY <1>0, <1>3, ChangeKeeps DEF Reconfigure
<1>4. ASSUME NEW c \in Client, NEW p \in RawPath, NEW me \in Method, NEW t \in BOOLEAN,
             NEW f \in Host \cup {noHost}, NEW r \in Host \cup {noHost},
             Arrive(c, me, p, t, f, r)
      PROVE  DInv'
  BY <1>4, ArriveKeeps
<1>5. ASSUME NEW c \in Client, ParseFailed(c) PROVE DInv'
  <2>1. /\ req[c].pc = "host" /\ req' = done(c) /\ counted("ParseFailed")
        /\ "ParseFailed" \in Counter /\ UNCHANGED <<settings, history>>
    BY <1>5 DEF ParseFailed, at, others, Counter
  <2> QED
    BY <2>1, DoneCounted
<1>6. ASSUME NEW c \in Client, GeoDeny(c) PROVE DInv'
  <2>1. /\ req[c].pc = "geo" /\ req' = done(c) /\ counted("GeoDeny")
        /\ "GeoDeny" \in Counter /\ UNCHANGED <<settings, history>>
    BY <1>6 DEF GeoDeny, at, others, Counter
  <2> QED
    BY <2>1, DoneCounted
<1>7. ASSUME NEW c \in Client,
             \/ RedirectTLS(c) \/ BadRequest(c) \/ LookUp(c) \/ HostKnown(c)
             \/ CheckAccess(c) \/ Serve(c) \/ HandlerAborts(c) \/ Follow(c)
      PROVE  DInv'
  BY <1>7, RedirectTLSKeeps, BadRequestKeeps, LookUpKeeps, HostKnownKeeps,
     CheckAccessKeeps, ServeKeeps, AbortKeeps, FollowKeeps
<1>8. CASE NetInit
  BY <1>8, NetInitKeeps
<1>9. CASE UNCHANGED vars
  BY <1>9 DEF vars, DInv, TypeInv, Fresh, started, loggedAll, sum
<1> QED
  BY <1>1, <1>2, <1>3, <1>4, <1>5, <1>6, <1>7, <1>8, <1>9 DEF Next

-----------------------------------------------------------------------------
(* The theorems about Dispatch. *)

(***************************************************************************)
(* DInv holds in every state.                                              *)
(***************************************************************************)
THEOREM DispatchInvariant == Spec => []DInv
BY InitDInv, NextDInv, PTL DEF Spec

(***************************************************************************)
(* The types: match always returns an entry, though several keys match,    *)
(* and no request goes on without a handler (XMux.ServeHTTP).              *)
(***************************************************************************)
THEOREM DispatchTypeCorrect == Spec => []DispatchTypeOK
<1>1. DInv => DispatchTypeOK
  <2> SUFFICES ASSUME DInv PROVE DispatchTypeOK
    OBVIOUS
  <2>1. ASSUME NEW c \in Client
        PROVE  /\ req[c].pc \in {"idle", "received", "host", "access", "geo",
                                 "following", "served", "aborted", "done"}
               /\ req[c].h \in muxEntry /\ req[c].host \in Host \cup {noHost}
               /\ req[c].pc \in {"access", "geo"} => req[c].h # nilEntry
    <3>1. /\ req[c] \in ReqType /\ req[c].h \in muxEntry
          /\ req[c].host \in Host \cup {noHost} /\ fine(req[c], muxes[c], levels[c])
      BY RequestFacts
    <3>2. req[c].pc \in PC
      BY <3>1 DEF ReqType
    <3> QED
      BY <3>1, <3>2 DEF PC, fine, routed
  <2> QED
    BY <2>1 DEF DInv, TypeInv, DispatchTypeOK
<1> QED
  BY <1>1, DispatchInvariant, PTL

(***************************************************************************)
(* A handler only runs, to its end or to a panic, for a host that an       *)
(* access list in force during the request gave the level it asks for, and *)
(* only if a multiplexer in force during the request routes the path to it *)
(* (XMux.ServeHTTP).                                                       *)
(***************************************************************************)
THEOREM ServedOnlyRightfully == Spec => []ServedRightfully
<1>1. DInv => ServedRightfully
  BY DEF DInv, fine, routed, ServedRightfully
<1> QED
  BY <1>1, DispatchInvariant, PTL

(***************************************************************************)
(* A client that follows redirects makes at most three hops, whatever      *)
(* handlers come and go and whenever TLSRedirect is switched (XMux.Handler *)
(* and XMux.ServeHTTP).                                                    *)
(***************************************************************************)
THEOREM RedirectsAlwaysEnd == Spec => []RedirectsEnd
<1>1. DInv => RedirectsEnd
  BY DEF DInv, fine, bounded, RedirectsEnd
<1> QED
  BY <1>1, DispatchInvariant, PTL

-----------------------------------------------------------------------------
(* The counters. *)

TallyInv == IsFiniteSet(given) /\ Cardinality(given) = sum + plain

\* no client gets an answer, and nothing is counted
quiet ==
  /\ \A c \in Client : req'[c].answers = req[c].answers
  /\ UNCHANGED <<cnt, plain>>

\* a client gets one answer, and it is counted once
oneAnswer(c) ==
  /\ req'[c].answers = req[c].answers + 1
  /\ \A d \in Client \ {c} : req'[d].answers = req[d].answers
  /\ \/ \E k \in Counter : cnt' = [cnt EXCEPT ![k] = @ + 1] /\ plain' = plain
     \/ cnt' = cnt /\ plain' = plain + 1

(***************************************************************************)
(* Every step is quiet or gives one answer.                                *)
(***************************************************************************)
LEMMA StepsAnswer == DInv /\ [Next]_vars => quiet \/ \E c \in Client : oneAnswer(c)
<1> SUFFICES ASSUME DInv, [Next]_vars PROVE quiet \/ \E c \in Client : oneAnswer(c)
  OBVIOUS
<1>0. req \in [Client -> ReqType]
  BY DEF DInv, TypeInv
<1>1. CASE NetInit \/ (\E u \in HandlerSet : HandleFunc(u) \/ RemoveHandler(u)) \/ Reconfigure
           \/ UNCHANGED vars
  BY <1>1 DEF NetInit, HandleFunc, RemoveHandler, Reconfigure, change, tally, vars, quiet
<1>2. ASSUME NEW c \in Client, req' = done(c),
             \/ \E k \in Counter : counted(k)
             \/ UNCHANGED cnt /\ plain' = plain + 1
      PROVE  oneAnswer(c)
  BY <1>0, <1>2 DEF done, counted, oneAnswer, ReqType
<1>3. ASSUME NEW c \in Client, NEW t, NEW p, req' = follow(c, t, p),
             \/ \E k \in Counter : counted(k)
             \/ UNCHANGED cnt /\ plain' = plain + 1
      PROVE  oneAnswer(c)
  BY <1>0, <1>3 DEF follow, counted, oneAnswer, ReqType
<1>4. Counter = {"ParseFailed", "NotFound", "GeoDeny", "IPDeny", "Success"}
  BY DEF Counter
<1>5. ASSUME NEW c \in Client, NEW p \in RawPath, NEW me \in Method, NEW t \in BOOLEAN,
             NEW f \in Host \cup {noHost}, NEW r \in Host \cup {noHost},
             Arrive(c, me, p, t, f, r)
      PROVE  quiet
  <2>1. req[c].pc = "idle" /\ req[c].answers = 0
    BY <1>5 DEF Arrive, at, DInv, fine, answered, bounded
  <2> QED
    BY <1>0, <1>5, <2>1 DEF Arrive, quiet, tally, noRequest
<1>6. ASSUME NEW c \in Client, RedirectTLS(c) PROVE oneAnswer(c)
  BY <1>3, <1>6 DEF RedirectTLS
<1>7. ASSUME NEW c \in Client, BadRequest(c) PROVE oneAnswer(c)
  BY <1>2, <1>7 DEF BadRequest
<1>8. ASSUME NEW c \in Client, LookUp(c) PROVE quiet
  BY <1>0, <1>8 DEF LookUp, tally, quiet, ReqType
<1>9. ASSUME NEW c \in Client, ParseFailed(c) \/ GeoDeny(c) PROVE oneAnswer(c)
  BY <1>2, <1>4, <1>9 DEF ParseFailed, GeoDeny
<1>10. ASSUME NEW c \in Client, HostKnown(c) PROVE quiet \/ oneAnswer(c)
  <2>1. CASE req[c].h = nilEntry
    BY <1>2, <1>4, <1>10, <2>1 DEF HostKnown
  <2>2. CASE req[c].h # nilEntry
    BY <1>0, <1>10, <2>2 DEF HostKnown, tally, quiet, ReqType
  <2> QED
    BY <2>1, <2>2
<1>11. ASSUME NEW c \in Client, CheckAccess(c) PROVE quiet \/ oneAnswer(c)
  <2>1. CASE ~sufficient(level[req[c].host], req[c].h.access)
    BY <1>2, <1>4, <1>11, <2>1 DEF CheckAccess
  <2>2. CASE sufficient(level[req[c].host], req[c].h.access)
    BY <1>0, <1>11, <2>2 DEF CheckAccess, tally, quiet, ReqType
  <2> QED
    BY <2>1, <2>2
<1>12. ASSUME NEW c \in Client, Serve(c) PROVE oneAnswer(c)
  <2>1. CASE req[c].h.f = "redirect"
    BY <1>3, <1>4, <1>12, <2>1 DEF Serve
  <2>2. CASE req[c].h.f # "redirect"
    BY <1>0, <1>4, <1>12, <2>2 DEF Serve, counted, oneAnswer, ReqType
  <2> QED
    BY <2>1, <2>2
<1>13. ASSUME NEW c \in Client, Follow(c) PROVE quiet
  BY <1>0, <1>13 DEF Follow, tally, quiet, ReqType, noRequest
<1>14. ASSUME NEW c \in Client, HandlerAborts(c) PROVE quiet
  BY <1>0, <1>14 DEF HandlerAborts, tally, quiet, ReqType
<1> QED
  BY <1>1, <1>5, <1>6, <1>7, <1>8, <1>9, <1>10, <1>11, <1>12, <1>13, <1>14 DEF Next

(***************************************************************************)
(* One more answer is one more element of given.                           *)
(***************************************************************************)
LEMMA GivenGrows ==
  ASSUME DInv, DInv', NEW c \in Client, oneAnswer(c)
  PROVE  \E x : x \notin given /\ given' = given \cup {x}
<1> DEFINE n == req[c].answers
           x == <<c, n + 1>>
<1>1. \A d \in Client : req[d].answers \in Nat
  BY DEF DInv, TypeInv, ReqType
<1>2. x \notin given
  BY <1>1 DEF given
<1>3. 1..(n + 1) = (1..n) \cup {n + 1}
  BY <1>1
<1>4. given' = given \cup {x}
  BY <1>3 DEF given, oneAnswer
<1> QED
  BY <1>2, <1>4

(***************************************************************************)
(* TallyInv is inductive.                                                  *)
(***************************************************************************)
LEMMA InitTallyInv == Init => TallyInv
<1> SUFFICES ASSUME Init PROVE TallyInv
  OBVIOUS
<1>1. \A c \in Client : 1..req[c].answers = {}
  BY DEF Init, noRequest
<1>2. given = {}
  BY <1>1 DEF given
<1>3. sum + plain = 0
  BY DEF Init, sum, Counter
<1> QED
  BY <1>2, <1>3, FS_EmptySet DEF TallyInv

LEMMA NextTallyInv == DInv /\ DInv' /\ TallyInv /\ [Next]_vars => TallyInv'
<1> SUFFICES ASSUME DInv, DInv', TallyInv, [Next]_vars PROVE TallyInv'
  OBVIOUS
<1>1. CASE quiet
  <2>1. given' = given
    BY <1>1 DEF quiet, given
  <2> QED
    BY <1>1, <2>1 DEF quiet, TallyInv, sum
<1>2. ASSUME NEW c \in Client, oneAnswer(c) PROVE TallyInv'
  <2>1. PICK x : x \notin given /\ given' = given \cup {x}
    BY <1>2, GivenGrows
  <2>2. IsFiniteSet(given') /\ Cardinality(given') = Cardinality(given) + 1
    BY <2>1, FS_AddElement DEF TallyInv
  <2>3. cnt \in [Counter -> Nat] /\ plain \in Nat
    BY DEF DInv, TypeInv
  <2>4. sum' + plain' = sum + plain + 1
    BY <1>2, <2>3 DEF oneAnswer, sum, Counter
  <2> QED
    BY <2>2, <2>4 DEF TallyInv
<1> QED
  BY <1>1, <1>2, StepsAnswer

(***************************************************************************)
(* Every request is answered exactly once, on every path through           *)
(* ServeHTTP but the one where the handler panics, which answers and       *)
(* counts nothing; every answer is counted once or was a TLS redirect or   *)
(* the refusal of "*", and ipsLogStats is called for every counted answer  *)
(* except the failures to parse an address.                                *)
(***************************************************************************)
THEOREM EveryAnswerCounted == Spec => []CountedOnce
<1>1. DInv /\ TallyInv => CountedOnce
  BY DEF DInv, fine, answered, answeredOnce, TallyInv, CountedOnce
<1>2. Spec => []TallyInv
  BY InitTallyInv, NextTallyInv, DispatchInvariant, PTL DEF Spec
<1> QED
  BY <1>1, <1>2, DispatchInvariant, PTL

-----------------------------------------------------------------------------
(* The statistics. *)

Cell == 0..(Size - 1)

HandedOver ==
  /\ data # nil => sender[data] = "received"
  /\ \A i \in Cell : cells[i] # nil => sender[cells[i]] = "received"

InHandOnly == (data # nil) <=> (recorder = "resolving")

OncePerRing ==
  /\ \A i, j \in Cell : (cells[i] # nil /\ cells[i] = cells[j]) => i = j
  /\ \A i \in Cell : (data # nil) => cells[i] # data

StopperSignals == stopper = "none" <=> ~signal

\* w has its last k cells written and the others not
full(w, k) == k \in 0..Size /\ \A i \in 1..Size : w[i] = nil <=> i <= Size - k

\* seen from ipsBuffer, the cells never written come first
WrittenLast == \E k \in 0..Size : full(walk, k)

RInv == IPStatsTypeOK /\ HandedOver /\ InHandOnly /\ OncePerRing /\ StopperSignals

(***************************************************************************)
(* The pointer stays in the ring.                                          *)
(***************************************************************************)
LEMMA NextCellInRing == \A i \in Cell : nextCell(i) \in Cell
<1> SUFFICES ASSUME NEW i \in Cell PROVE nextCell(i) \in Cell
  OBVIOUS
<1>1. Size \in Nat /\ Size > 0 /\ i + 1 \in Nat
  BY IPStatsAssumption DEF Cell
<1>2. (i + 1) % Size \in 0..(Size - 1)
  BY <1>1
<1> QED
  BY <1>2 DEF nextCell, Cell

(***************************************************************************)
(* The walk around the ring before and after a cell is written: everything *)
(* moves one place, and the new entry is the last.                         *)
(***************************************************************************)
LEMMA WalkType == IPStatsTypeOK => walk \in [1..Size -> Entry \cup {nil}]
<1> SUFFICES ASSUME IPStatsTypeOK, NEW i \in 1..Size
             PROVE  cells[(ipsBuffer + i - 1) % Size] \in Entry \cup {nil}
  BY DEF walk
<1>1. (ipsBuffer + i - 1) % Size \in 0..(Size - 1)
  BY IPStatsAssumption DEF IPStatsTypeOK
<1> QED
  BY <1>1 DEF IPStatsTypeOK

LEMMA WalkMoves ==
  ASSUME IPStatsTypeOK, Record
  PROVE  /\ \A i \in 1..(Size - 1) : walk'[i] = walk[i + 1]
         /\ walk'[Size] = data
<1>1. Size \in Nat \ {0} /\ ipsBuffer \in 0..(Size - 1)
  BY IPStatsAssumption DEF IPStatsTypeOK
<1>2. \A x \in 0..(Size - 1) : x % Size = x
  BY <1>1
<1>3. \A x \in Size..(2 * Size - 1) : x % Size = x - Size
  BY <1>1
<1>4. ipsBuffer' = IF ipsBuffer + 1 = Size THEN 0 ELSE ipsBuffer + 1
  BY <1>1, <1>2, <1>3 DEF Record, nextCell
<1>5. ASSUME NEW i \in 1..(Size - 1)
      PROVE  /\ (ipsBuffer' + i - 1) % Size = (ipsBuffer + (i + 1) - 1) % Size
             /\ (ipsBuffer' + i - 1) % Size \in 0..(Size - 1)
             /\ (ipsBuffer' + i - 1) % Size # ipsBuffer
  <2>1. CASE ipsBuffer + i < Size
    <3>1. ipsBuffer' = ipsBuffer + 1
      BY <1>1, <1>4, <2>1
    <3>2. ipsBuffer' + i - 1 = ipsBuffer + i /\ ipsBuffer + (i + 1) - 1 = ipsBuffer + i
      BY <1>1, <3>1
    <3>3. (ipsBuffer + i) % Size = ipsBuffer + i
      BY <1>1, <1>2, <2>1
    <3> QED
      BY <1>1, <2>1, <3>2, <3>3
  <2>2. CASE ipsBuffer + i >= Size
    <3>1. ipsBuffer + (i + 1) - 1 = ipsBuffer + i
      BY <1>1
    <3>2. (ipsBuffer + i) % Size = ipsBuffer + i - Size
      BY <1>1, <1>3, <2>2
    <3>3. (ipsBuffer' + i - 1) % Size = ipsBuffer + i - Size
      <4>1. CASE ipsBuffer + 1 = Size
        <5>1. ipsBuffer' + i - 1 = i - 1 /\ i - 1 \in 0..(Size - 1)
          BY <1>1, <1>4, <4>1
        <5> QED
          BY <1>1, <1>2, <4>1, <5>1
      <4>2. CASE ipsBuffer + 1 # Size
        <5>1. ipsBuffer' + i - 1 = ipsBuffer + i
          BY <1>1, <1>4, <4>2
        <5> QED
          BY <3>2, <5>1
      <4> QED
        BY <4>1, <4>2
    <3> QED
      BY <1>1, <2>2, <3>1, <3>2, <3>3
  <2> QED
    BY <1>1, <2>1, <2>2
<1>6. (ipsBuffer' + Size - 1) % Size = ipsBuffer
  <2>1. CASE ipsBuffer + 1 = Size
    BY <1>1, <1>2, <1>4, <2>1
  <2>2. CASE ipsBuffer + 1 # Size
    <3>1. ipsBuffer' + Size - 1 = ipsBuffer + Size
      BY <1>1, <1>4, <2>2
    <3> QED
      BY <1>1, <1>3, <3>1
  <2> QED
    BY <2>1, <2>2
<1>7. cells' = [cells EXCEPT ![ipsBuffer] = data] /\ cells \in [0..(Size - 1) -> Entry \cup {nil}]
  BY DEF Record, IPStatsTypeOK
<1>8. ASSUME NEW i \in 1..(Size - 1) PROVE walk'[i] = walk[i + 1]
  <2>1. walk'[i] = cells'[(ipsBuffer' + i - 1) % Size]
    BY <1>1 DEF walk
  <2>2. walk[i + 1] = cells[(ipsBuffer + (i + 1) - 1) % Size]
    BY <1>1 DEF walk
  <2> QED
    BY <1>5, <1>7, <2>1, <2>2
<1>9. walk'[Size] = data
  BY <1>1, <1>6, <1>7 DEF walk
<1> QED
  BY <1>8, <1>9

(***************************************************************************)
(* What Do's callback collects of cells whose last k are written: these,   *)
(* in their order.  The loop of collected is unique, by its first step     *)
(* that could differ.                                                      *)
(***************************************************************************)
LEMMA CollectedIs ==
  ASSUME NEW w \in [1..Size -> Entry \cup {nil}], NEW k, full(w, k)
  PROVE  collected(w) = [j \in 1..k |-> w[Size - k + j]]
<1> DEFINE n == Size - k
           step(f, i) == IF i = 0 THEN <<>>
                         ELSE IF w[i] = nil THEN f[i - 1] ELSE Append(f[i - 1], w[i])
           part(i) == [j \in 1..(i - n) |-> w[n + j]]
           g == [i \in 0..Size |-> part(i)]
<1>1. Size \in Nat /\ k \in 0..Size /\ n \in 0..Size /\ k = Size - n
  BY IPStatsAssumption DEF full
<1>2. \A i \in 1..Size : (w[i] = nil <=> i <= n) /\ w[i] \in Entry \cup {nil}
  BY DEF full
<1> HIDE DEF n
<1>3. ASSUME NEW i \in 0..n PROVE part(i) = <<>>
  BY <1>1
<1>4. ASSUME NEW i \in (n + 1)..Size
      PROVE  part(i) = Append(part(i - 1), w[i])
  <2>1. part(i - 1) \in Seq(Entry \cup {nil}) /\ Len(part(i - 1)) = i - 1 - n
    BY <1>1, <1>2
  <2>2. part(i) \in Seq(Entry \cup {nil}) /\ Len(part(i)) = i - n
    BY <1>1, <1>2
  <2> QED
    BY <1>1, <1>2, <2>1, <2>2, AppendProperties, SeqEqual
<1>5. g = [i \in 0..Size |-> step(g, i)]
  <2>1. ASSUME NEW i \in 0..Size PROVE part(i) = step(g, i)
    <3>1. CASE i = 0
      BY <1>1, <1>3, <3>1
    <3>2. CASE i # 0 /\ i <= n
      BY <1>1, <1>2, <1>3, <3>2
    <3>3. CASE i > n
      <4>1. i \in (n + 1)..Size /\ i - 1 \in 0..Size /\ i \in 1..Size
        BY <1>1, <3>3
      <4>2. part(i) = Append(part(i - 1), w[i]) /\ g[i - 1] = part(i - 1)
        BY <1>4, <4>1
      <4>3. i # 0 /\ w[i] # nil
        BY <1>1, <1>2, <3>3, <4>1
      <4> HIDE DEF part, g
      <4> QED
        BY <4>2, <4>3
    <3> QED
      BY <1>1, <3>1, <3>2, <3>3
  <2> QED
    BY <2>1
<1> HIDE DEF g
<1>6. PICK f : f = [i \in 0..Size |-> step(f, i)] /\ collected(w) = f[Size]
  BY <1>5 DEF collected
<1>7. \A i \in 0..Size : f[i] = g[i]
  <2> DEFINE T == {i \in 0..Size : f[i] # g[i]}
  <2>1. SUFFICES ASSUME T # {} PROVE FALSE
    OBVIOUS
  <2>2. PICK i \in T : \A j \in T : i <= j
    <3>1. T \in SUBSET Nat
      BY <1>1
    <3> HIDE DEF T
    <3> QED
      BY <2>1, <3>1, LeastNumber
  <2>3. i \in 0..Size /\ f[i] = step(f, i) /\ g[i] = step(g, i) /\ f[i] # g[i]
    BY <1>5, <1>6
  <2>4. CASE i = 0
    BY <2>3, <2>4
  <2>5. CASE i # 0
    <3>1. i - 1 \in 0..Size /\ ~(i <= i - 1)
      BY <1>1, <2>3, <2>5
    <3>2. f[i - 1] = g[i - 1]
      BY <2>2, <3>1
    <3> QED
      BY <2>3, <2>5, <3>2
  <2> QED
    BY <2>4, <2>5
<1>8. g[Size] = part(Size) /\ Size - n = k
  BY <1>1 DEF g
<1>9. part(Size) = [j \in 1..k |-> w[Size - k + j]]
  BY <1>8 DEF n
<1>10. collected(w) = f[Size]
  BY <1>6
<1>11. f[Size] = g[Size]
  BY <1>1, <1>7
<1> HIDE DEF part
<1> QED
  BY <1>8, <1>9, <1>10, <1>11

(***************************************************************************)
(* StatsInit establishes RInv.                                             *)
(***************************************************************************)
LEMMA InitRInv == StatsInit => RInv
<1> SUFFICES ASSUME StatsInit PROVE RInv
  OBVIOUS
<1> USE IPStatsAssumption DEF StatsInit
<1>1. IPStatsTypeOK
  BY DEF IPStatsTypeOK
<1>2. HandedOver /\ InHandOnly /\ OncePerRing /\ StopperSignals
  BY DEF HandedOver, InHandOnly, OncePerRing, StopperSignals, Cell
<1> QED
  BY <1>1, <1>2 DEF RInv

(***************************************************************************)
(* Every step preserves RInv.                                              *)
(***************************************************************************)
LEMMA StepRInv == RInv /\ [StatsNext]_statsVars => RInv'
<1> SUFFICES ASSUME RInv, [StatsNext]_statsVars PROVE RInv'
  OBVIOUS
<1> USE IPStatsAssumption
<1> USE DEF RInv, IPStatsTypeOK, HandedOver, InHandOnly, OncePerRing,
            StopperSignals, Cell
<1>1. ASSUME NEW e \in Entry, ipsLogStats(e) PROVE RInv'
  BY <1>1 DEF ipsLogStats
<1>2. ASSUME NEW e \in Entry, GiveUp(e) PROVE RInv'
  BY <1>2 DEF GiveUp
<1>3. ASSUME NEW e \in Entry, Receive(e) PROVE RInv'
  BY <1>3 DEF Receive
<1>4. CASE Record
  <2>1. ipsBuffer \in Cell /\ nextCell(ipsBuffer) \in Cell
    BY NextCellInRing
  <2>2. /\ cells' = [cells EXCEPT ![ipsBuffer] = data] /\ data' = nil
        /\ sender' = sender /\ recorder = "resolving"
    BY <1>4 DEF Record
  <2>3. IPStatsTypeOK'
    BY <1>4, <2>1 DEF Record
  <2>4. HandedOver'
    BY <2>1, <2>2
  <2>5. OncePerRing'
    BY <2>1, <2>2
  <2>6. InHandOnly' /\ StopperSignals'
    BY <1>4 DEF Record
  <2> QED
    BY <2>3, <2>4, <2>5, <2>6
<1>5. CASE Return
  BY <1>5 DEF Return
<1>6. CASE ipsGetBuffer
  BY <1>6 DEF ipsGetBuffer
<1>7. CASE ipsShutdown
  BY <1>7 DEF ipsShutdown
<1>8. CASE ShutdownReturns
  BY <1>8 DEF ShutdownReturns
<1>9. CASE UNCHANGED statsVars
  BY <1>9 DEF statsVars
<1> QED
  BY <1>1, <1>2, <1>3, <1>4, <1>5, <1>6, <1>7, <1>8, <1>9 DEF StatsNext

(***************************************************************************)
(* Writing a cell: one cell more is written, or the oldest entry goes.     *)
(***************************************************************************)
LEMMA RecordFills ==
  ASSUME IPStatsTypeOK, Record, data # nil, NEW k, full(walk, k)
  PROVE  full(walk', IF k < Size THEN k + 1 ELSE Size)
<1>1. /\ \A i \in 1..(Size - 1) : walk'[i] = walk[i + 1]
      /\ walk'[Size] = data
  BY WalkMoves
<1>2. Size \in Nat \ {0} /\ k \in 0..Size
  BY IPStatsAssumption DEF full
<1> DEFINE K == IF k < Size THEN k + 1 ELSE Size
<1>3. K \in 0..Size /\ Size - K = IF k < Size THEN Size - k - 1 ELSE 0
  BY <1>2
<1>4. ASSUME NEW i \in 1..Size PROVE walk'[i] = nil <=> i <= Size - K
  <2>1. CASE i = Size
    BY <1>1, <1>2, <1>3, <2>1
  <2>2. CASE i # Size
    <3>1. i \in 1..(Size - 1) /\ i + 1 \in 1..Size
      BY <1>2, <2>2
    <3>2. walk'[i] = nil <=> i + 1 <= Size - k
      BY <1>1, <3>1 DEF full
    <3> QED
      BY <1>2, <1>3, <3>1, <3>2
  <2> QED
    BY <2>1, <2>2
<1> QED
  BY <1>3, <1>4 DEF full

(***************************************************************************)
(* WrittenLast is inductive.                                               *)
(***************************************************************************)
LEMMA InitWrittenLast == StatsInit => WrittenLast
<1> SUFFICES ASSUME StatsInit PROVE WrittenLast
  OBVIOUS
<1>1. Size \in Nat \ {0}
  BY IPStatsAssumption
<1>2. ASSUME NEW i \in 1..Size PROVE walk[i] = nil
  <2>1. (ipsBuffer + i - 1) % Size \in 0..(Size - 1)
    BY <1>1 DEF StatsInit
  <2> QED
    BY <2>1 DEF walk, StatsInit
<1>3. full(walk, 0) /\ 0 \in 0..Size
  BY <1>1, <1>2 DEF full
<1> QED
  BY <1>3 DEF WrittenLast

LEMMA StepWrittenLast == RInv /\ WrittenLast /\ [StatsNext]_statsVars => WrittenLast'
<1> SUFFICES ASSUME RInv, WrittenLast, [StatsNext]_statsVars PROVE WrittenLast'
  OBVIOUS
<1>1. CASE Record
  <2>1. PICK k : full(walk, k)
    BY DEF WrittenLast
  <2>2. data # nil /\ IPStatsTypeOK
    BY <1>1 DEF RInv, InHandOnly, Record
  <2> DEFINE K == IF k < Size THEN k + 1 ELSE Size
  <2>3. full(walk', K)
    BY <1>1, <2>1, <2>2, RecordFills
  <2> HIDE DEF K
  <2>4. K \in 0..Size
    BY <2>3 DEF full
  <2> QED
    BY <2>3, <2>4 DEF WrittenLast, full
<1>2. CASE UNCHANGED <<cells, ipsBuffer>>
  <2>1. walk' = walk
    BY <1>2 DEF walk
  <2> QED
    BY <2>1 DEF WrittenLast
<1>3. Record \/ UNCHANGED <<cells, ipsBuffer>>
  BY DEF StatsNext, ipsLogStats, GiveUp, Receive, Return, ipsGetBuffer, ipsShutdown,
     ShutdownReturns, statsVars
<1> QED
  BY <1>1, <1>2, <1>3

(***************************************************************************)
(* RInv holds in every reachable state.                                    *)
(***************************************************************************)
THEOREM IPStatsInvariant == StatsSpec => []RInv
BY InitRInv, StepRInv, PTL DEF StatsSpec

(***************************************************************************)
(* The types: the pointer never leaves the ring, and the cells hold        *)
(* entries only.                                                           *)
(***************************************************************************)
THEOREM IPStatsTypeCorrect == StatsSpec => []IPStatsTypeOK
<1>1. RInv => IPStatsTypeOK
  BY DEF RInv
<1> QED
  BY <1>1, IPStatsInvariant, PTL

(***************************************************************************)
(* An entry is in the ring at most once, and only after its sender has     *)
(* handed it to the recorder: a sender that gave up leaves no trace        *)
(* (ipsLogStats and the recorder's loop).                                  *)
(***************************************************************************)
THEOREM RecordedOnce == StatsSpec => [](HandedOver /\ OncePerRing)
<1>1. RInv => HandedOver /\ OncePerRing
  BY DEF RInv
<1> QED
  BY <1>1, IPStatsInvariant, PTL

-----------------------------------------------------------------------------
(* The ring implements the bounded log. *)

(***************************************************************************)
(* What a reader gets of cells whose last k are written.                   *)
(***************************************************************************)
LEMMA RingIs ==
  ASSUME NEW w \in [1..Size -> Entry \cup {nil}], NEW k, full(w, k)
  PROVE  /\ collected(w) = [j \in 1..k |-> w[Size - k + j]]
         /\ collected(w) \in Seq(Entry \cup {nil}) /\ Len(collected(w)) = k
<1>1. collected(w) = [j \in 1..k |-> w[Size - k + j]]
  BY CollectedIs
<1>2. Size \in Nat /\ k \in 0..Size
  BY IPStatsAssumption DEF full
<1>3. \A j \in 1..k : w[Size - k + j] \in Entry \cup {nil}
  BY <1>2
<1> QED
  BY <1>1, <1>2, <1>3

(***************************************************************************)
(* Appending an element, and dropping the first.                           *)
(***************************************************************************)
LEMMA AppendIs ==
  ASSUME NEW S, NEW q \in Seq(S), NEW x \in S, NEW n \in Nat, Len(q) = n
  PROVE  /\ Append(q, x) \in Seq(S) /\ Len(Append(q, x)) = n + 1
         /\ \A j \in 1..n : Append(q, x)[j] = q[j]
         /\ Append(q, x)[n + 1] = x
BY AppendProperties

LEMMA TailIs ==
  ASSUME NEW S, NEW q \in Seq(S), NEW n \in Nat, Len(q) = n + 1
  PROVE  /\ SubSeq(q, 2, n + 1) \in Seq(S) /\ Len(SubSeq(q, 2, n + 1)) = n
         /\ \A i \in 1..n : SubSeq(q, 2, n + 1)[i] = q[i + 1]
<1> DEFINE t == SubSeq(q, 2, n + 1)
<1>1. \A i \in 2..(n + 1) : q[i] \in S
  BY ElementOfSeq
<1>2. t = [i \in 1..n |-> q[i + 1]]
  OBVIOUS
<1> QED
  BY <1>1, <1>2

(***************************************************************************)
(* Recording appends to the log and keeps its last Size entries.           *)
(***************************************************************************)
LEMMA RecordAppends ==
  ASSUME RInv, RInv', WrittenLast, Record
  PROVE  ring' = Log!lastOf(Append(ring, data))
<1>1. PICK k : full(walk, k)
  BY DEF WrittenLast
<1>2. Size \in Nat \ {0} /\ k \in 0..Size
  BY <1>1, IPStatsAssumption DEF full
<1>3. data # nil /\ data \in Entry \cup {nil} /\ IPStatsTypeOK /\ IPStatsTypeOK'
  BY DEF RInv, InHandOnly, Record, IPStatsTypeOK
<1>4. /\ ring = [j \in 1..k |-> walk[Size - k + j]]
      /\ ring \in Seq(Entry \cup {nil}) /\ Len(ring) = k
  <2>1. walk \in [1..Size -> Entry \cup {nil}]
    BY <1>3, WalkType
  <2> QED
    BY <1>1, <2>1, RingIs DEF ring
<1> DEFINE K == IF k < Size THEN k + 1 ELSE Size
           s == Append(ring, data)
<1>5. full(walk', K)
  BY <1>1, <1>3, RecordFills
<1>6. /\ ring' = [j \in 1..K |-> walk'[Size - K + j]]
      /\ ring' \in Seq(Entry \cup {nil}) /\ Len(ring') = K
  <2>1. walk' \in [1..Size -> Entry \cup {nil}]
    <3>1. ipsBuffer' \in 0..(Size - 1) /\ cells' \in [0..(Size - 1) -> Entry \cup {nil}]
      BY <1>3 DEF IPStatsTypeOK
    <3>2. \A b \in 0..(Size - 1), i \in 1..Size : (b + i - 1) % Size \in 0..(Size - 1)
      BY <1>2
    <3> QED
      BY <3>1, <3>2 DEF walk
  <2>2. ring' = collected(walk')
    BY DEF ring
  <2> HIDE DEF K
  <2> QED
    BY <1>5, <2>1, <2>2, RingIs
<1>7. /\ \A i \in 1..(Size - 1) : walk'[i] = walk[i + 1]
      /\ walk'[Size] = data
  BY <1>3, WalkMoves
<1>8. /\ s \in Seq(Entry \cup {nil}) /\ Len(s) = k + 1
      /\ \A j \in 1..k : s[j] = ring[j]
      /\ s[k + 1] = data
  BY <1>2, <1>3, <1>4, AppendIs
<1> HIDE DEF s
<1>9. CASE k < Size
  <2>1. Log!lastOf(s) = s
    <3>1. Log!lastOf(s) = SubSeq(s, 1, Len(s))
      BY <1>2, <1>8, <1>9 DEF Log!lastOf
    <3> QED
      BY <1>8, <3>1, SubSeqFull
  <2>2. K = k + 1 /\ Len(ring') = Len(s)
    BY <1>6, <1>8, <1>9
  <2>3. ASSUME NEW j \in 1..(k + 1) PROVE ring'[j] = s[j]
    <3>1. ring'[j] = walk'[Size - (k + 1) + j]
      BY <1>6, <2>2
    <3>2. CASE j = k + 1
      BY <1>2, <1>7, <1>8, <3>1, <3>2
    <3>3. CASE j # k + 1
      <4>1. j \in 1..k /\ Size - (k + 1) + j \in 1..(Size - 1)
            /\ Size - (k + 1) + j + 1 = Size - k + j
        BY <1>2, <1>9, <3>3
      <4> QED
        BY <1>4, <1>7, <1>8, <3>1, <4>1
    <3> QED
      BY <3>2, <3>3
  <2>4. ring' = s
    BY <1>6, <1>8, <2>2, <2>3, SeqEqual
  <2> QED
    BY <2>1, <2>4 DEF s
<1>10. CASE k = Size
  <2> DEFINE l == Log!lastOf(s)
  <2>1. l = SubSeq(s, 2, Size + 1)
    BY <1>2, <1>8, <1>10 DEF Log!lastOf
  <2>3. /\ l \in Seq(Entry \cup {nil}) /\ Len(l) = Size
        /\ \A i \in 1..Size : l[i] = s[i + 1]
    <3>1. Size \in Nat /\ Len(s) = Size + 1
      BY <1>2, <1>8, <1>10
    <3> HIDE DEF l
    <3> QED
      BY <1>8, <2>1, <3>1, TailIs
  <2> HIDE DEF l
  <2>4. K = Size /\ Len(ring') = Size
    BY <1>2, <1>6, <1>10
  <2>5. ASSUME NEW j \in 1..Size PROVE ring'[j] = l[j]
    <3>1. ring'[j] = walk'[j] /\ l[j] = s[j + 1]
      BY <1>2, <1>6, <2>3, <2>4
    <3>2. CASE j = Size
      BY <1>7, <1>8, <1>10, <3>1, <3>2
    <3>3. CASE j # Size
      <4>1. j \in 1..(Size - 1) /\ j + 1 \in 1..k /\ Size - k + (j + 1) = j + 1
        BY <1>2, <1>10, <3>3
      <4> QED
        BY <1>4, <1>7, <1>8, <3>1, <4>1
    <3> QED
      BY <3>2, <3>3
  <2>6. ring' = l
    BY <1>6, <2>3, <2>4, <2>5, SeqEqual
  <2> QED
    BY <2>6 DEF l, s
<1> QED
  BY <1>2, <1>9, <1>10

(***************************************************************************)
(* The initial ring is an empty log.                                       *)
(***************************************************************************)
LEMMA InitMapsToInit == StatsInit => Log!Init
<1> SUFFICES ASSUME StatsInit PROVE Log!Init
  OBVIOUS
<1>1. IPStatsTypeOK
  BY InitRInv DEF RInv
<1>2. full(walk, 0)
  <2>1. PICK k \in 0..Size : full(walk, k)
    BY InitWrittenLast DEF WrittenLast
  <2>2. Size \in Nat \ {0}
    BY IPStatsAssumption
  <2>3. walk[Size] = nil
    <3>1. (ipsBuffer + Size - 1) % Size \in 0..(Size - 1)
      BY <2>2 DEF StatsInit
    <3> QED
      BY <2>2, <3>1 DEF walk, StatsInit
  <2>4. k = 0
    BY <2>1, <2>2, <2>3 DEF full
  <2> QED
    BY <2>1, <2>4
<1>3. ring = <<>>
  BY <1>1, <1>2, WalkType, RingIs DEF ring
<1>4. inHand = {}
  BY IPStatsAssumption DEF StatsInit, inHand
<1> QED
  BY <1>3, <1>4 DEF StatsInit, Log!Init

(***************************************************************************)
(* Every step of the ring is a step of the log or leaves it as it is.      *)
(***************************************************************************)
LEMMA StepMapsToStep ==
  ASSUME RInv, RInv', WrittenLast, [StatsNext]_statsVars
  PROVE  [Log!Next]_(Log!vars)
<1> DEFINE pend == {e \in Entry : sender[e] = "sending"} \cup inHand
           settl == {e \in Entry : sender[e] \in {"received", "dropped"}} \ inHand
<1>0. ASSUME UNCHANGED <<cells, ipsBuffer>> PROVE ring' = ring
  BY <1>0 DEF ring, walk
<1>1. ASSUME NEW e \in Entry, ipsLogStats(e) PROVE Log!Submit(e)
  <2>1. ring' = ring /\ UNCHANGED <<data, recorder, view>> /\ inHand' = inHand
    BY <1>0, <1>1 DEF ipsLogStats, inHand
  <2>2. e \notin inHand
    BY <1>1, IPStatsAssumption DEF ipsLogStats, inHand, RInv, HandedOver
  <2>3. \A f \in Entry : sender'[f] = IF f = e THEN "sending" ELSE sender[f]
    BY <1>1 DEF ipsLogStats, RInv, IPStatsTypeOK
  <2>4. e \notin pend \cup settl
    BY <1>1, <2>2 DEF ipsLogStats
  <2>5. pend' = pend \cup {e}
    BY <1>1, <2>1, <2>3 DEF ipsLogStats
  <2>6. settl' = settl
    BY <1>1, <2>1, <2>3 DEF ipsLogStats
  <2> QED
    BY <2>1, <2>4, <2>5, <2>6 DEF Log!Submit
<1>2. ASSUME NEW e \in Entry, GiveUp(e) PROVE Log!Drop(e)
  BY <1>0, <1>2, IPStatsAssumption DEF GiveUp, Log!Drop, Log!Settle, inHand, RInv, HandedOver, IPStatsTypeOK
<1>3. ASSUME NEW e \in Entry, Receive(e) PROVE UNCHANGED Log!vars
  BY <1>0, <1>3, IPStatsAssumption DEF Receive, Log!vars, inHand, RInv, InHandOnly, IPStatsTypeOK
<1>4. CASE Record
  <2>1. ring' = Log!lastOf(Append(ring, data))
    BY <1>4, RecordAppends
  <2>2. data \in Entry /\ inHand = {data} /\ inHand' = {}
    BY <1>4, IPStatsAssumption DEF Record, inHand, RInv, InHandOnly, IPStatsTypeOK
  <2>3. sender[data] = "received"
    BY <2>2, IPStatsAssumption DEF RInv, HandedOver
  <2>4. PICK e \in Entry : e = data
    BY <2>2
  <2>5. Log!Accept(e)
    BY <1>4, <2>1, <2>2, <2>3, <2>4 DEF Record, Log!Accept, Log!Settle
  <2> QED
    BY <2>4, <2>5 DEF Log!Next
<1>5. CASE Return
  BY <1>0, <1>5 DEF Return, Log!Next, Log!Close, inHand
<1>6. CASE ipsGetBuffer
  BY <1>0, <1>6 DEF ipsGetBuffer, Log!Next, Log!Read, inHand
<1>7. CASE ipsShutdown \/ ShutdownReturns \/ UNCHANGED statsVars
  BY <1>0, <1>7 DEF ipsShutdown, ShutdownReturns, statsVars, Log!vars, inHand
<1> QED
  BY <1>1, <1>2, <1>3, <1>4, <1>5, <1>6, <1>7 DEF StatsNext, Log!Next

(***************************************************************************)
(* The ring implements the bounded log: a reader gets the last Size        *)
(* entries recorded, oldest first, each once, through any number of turns  *)
(* of the ring and whatever its size, and nothing is recorded once the     *)
(* recorder has called Complete (ipsGetBuffer and the recorder's loop).    *)
(***************************************************************************)
THEOREM RingImplementsLog == StatsSpec => ImplementsBoundedLog
<1>1. StatsSpec => []WrittenLast
  BY InitWrittenLast, StepWrittenLast, IPStatsInvariant, PTL DEF StatsSpec
<1>2. RInv /\ RInv' /\ WrittenLast /\ [StatsNext]_statsVars => [Log!Next]_(Log!vars)
  BY StepMapsToStep
<1> QED
  BY <1>1, <1>2, InitMapsToInit, IPStatsInvariant, PTL
     DEF StatsSpec, ImplementsBoundedLog, Log!Spec
=============================================================================
