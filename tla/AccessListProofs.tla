-------------------------- MODULE AccessListProofs --------------------------
(***************************************************************************)
(* Proofs about the access list, for every set of networks and hosts and   *)
(* every AccessRights section.                                             *)
(*                                                                         *)
(* Between two lines of a rebuild the list satisfies                       *)
(*   Justified  every entry comes from a line read so far that has its     *)
(*              network, and grants no more than that line;                *)
(*   Ceiling    the address of every line read so far is in some entry,    *)
(*              and the first such entry grants no more than the line.     *)
(* A later, wider network may contain the address and grant more, so       *)
(* Ceiling speaks of the first entry only: the one a lookup uses.          *)
(***************************************************************************)
EXTENDS AccessList, TLAPS, WellFoundedInduction

TypeRights ==
  /\ rights \in Seq(Lines)
  /\ pos \in 0..Len(rights)
  /\ locked \in BOOLEAN
  /\ loads \in 0..MaxLoads

TypeAnswer == answer \in [host : Host, level : Level] \cup {noAnswer}

Justified ==
  \A i \in DOMAIN netAccessList : \E k \in 1..pos :
    /\ rights[k].parses
    /\ netAccessList[i].net = rights[k].net
    /\ netAccessList[i].level <= rights[k].level

Ceiling ==
  \A k \in 1..pos : rights[k].parses =>
    /\ containing(netAccessList, rights[k].ip) # {}
    /\ \A i \in DOMAIN netAccessList :
         firstMatch(netAccessList, rights[k].ip, i) =>
           netAccessList[i].level <= rights[k].level

AInv ==
  /\ TypeRights
  /\ netAccessList \in Seq(AccessNet)
  /\ TypeAnswer
  /\ ~locked => pos = Len(rights)
  /\ Justified
  /\ Ceiling
  /\ NeverElevated
  /\ Restricting

-----------------------------------------------------------------------------
(***************************************************************************)
(* A set of natural numbers that is not empty has a least element.         *)
(***************************************************************************)
LEMMA LeastElement ==
  ASSUME NEW T, T \subseteq Nat, T # {}
  PROVE  \E x \in T : \A y \in T : x <= y
<1> DEFINE R == OpToRel(<, Nat)
<1>1. IsWellFoundedOn(R, Nat)
  BY NatLessThanWellFounded
<1>2. PICK x \in T : \A y \in T : ~(<<y, x>> \in R)
  <2> HIDE DEF R
  <2> QED
    BY <1>1, WFMin
<1>3. \A y \in T : ~(y < x)
  BY <1>2 DEF OpToRel
<1> QED
  BY <1>3

(***************************************************************************)
(* A host in some network of a list has a first entry, and the lookup      *)
(* returns the level of that entry.                                        *)
(***************************************************************************)
LEMMA LookupIsFirst ==
  ASSUME NEW list \in Seq(AccessNet), NEW h, containing(list, h) # {}
  PROVE  \E i \in DOMAIN list : /\ firstMatch(list, h, i)
                                /\ getAccessLevel(list, h) = list[i].level
<1>1. containing(list, h) \subseteq Nat
  BY DEF containing
<1>2. PICK x \in containing(list, h) : \A y \in containing(list, h) : x <= y
  BY <1>1, LeastElement
<1>3. x \in DOMAIN list /\ firstMatch(list, h, x)
  BY <1>2 DEF firstMatch, containing
<1> DEFINE c == CHOOSE i \in DOMAIN list : firstMatch(list, h, i)
<1>4. c \in DOMAIN list /\ firstMatch(list, h, c)
  BY <1>3
<1>5. getAccessLevel(list, h) = list[c].level
  BY DEF getAccessLevel
<1> QED
  BY <1>4, <1>5

(***************************************************************************)
(* A line lowers entries and adds none when its address is known: the      *)
(* networks stay, no level rises, and the entries around the address grant *)
(* no more than the line.                                                  *)
(***************************************************************************)
LEMMA LoweredFacts ==
  ASSUME NEW list \in Seq(AccessNet), NEW r \in AccessRight
  PROVE  /\ lowered(list, r) \in Seq(AccessNet)
         /\ DOMAIN lowered(list, r) = DOMAIN list
         /\ \A i \in DOMAIN list :
              /\ lowered(list, r)[i].net = list[i].net
              /\ lowered(list, r)[i].level <= list[i].level
              /\ i \in containing(list, r.ip) =>
                   lowered(list, r)[i].level <= r.level
<1>1. r.level \in Level /\ \A i \in DOMAIN list : list[i] \in AccessNet
  BY DEF AccessRight
<1>2. Level \subseteq Nat
  BY DEF Level, ACCESS_LEVEL_NONE, ACCESS_LEVEL_USER, ACCESS_LEVEL_ADMIN
<1>3. ASSUME NEW e \in AccessNet, NEW l \in Level
      PROVE  /\ [e EXCEPT !.level = l] \in AccessNet
             /\ [e EXCEPT !.level = l].net = e.net
             /\ [e EXCEPT !.level = l].level = l
             /\ e.level \in Level
  BY DEF AccessNet
<1>4. ASSUME NEW i \in DOMAIN list
      PROVE  /\ lowered(list, r)[i] \in AccessNet
             /\ lowered(list, r)[i].net = list[i].net
             /\ lowered(list, r)[i].level <= list[i].level
             /\ i \in containing(list, r.ip) =>
                  lowered(list, r)[i].level <= r.level
  <2>1. lowered(list, r)[i] =
          IF i \in containing(list, r.ip) /\ r.level < list[i].level
          THEN [list[i] EXCEPT !.level = r.level] ELSE list[i]
    BY DEF lowered
  <2>2. list[i].level \in Nat /\ r.level \in Nat
    BY <1>1, <1>2, <1>3
  <2>3. CASE i \in containing(list, r.ip) /\ r.level < list[i].level
    BY <1>1, <1>3, <2>1, <2>2, <2>3
  <2>4. CASE ~(i \in containing(list, r.ip) /\ r.level < list[i].level)
    BY <1>1, <2>1, <2>2, <2>4
  <2> QED
    BY <2>3, <2>4
<1>5. lowered(list, r) \in [1..Len(list) -> AccessNet]
  <2> DEFINE f(i) == IF i \in containing(list, r.ip) /\ r.level < list[i].level
                     THEN [list[i] EXCEPT !.level = r.level] ELSE list[i]
  <2>1. lowered(list, r) = [i \in 1..Len(list) |-> f(i)]
    BY DEF lowered
  <2>2. \A i \in 1..Len(list) : f(i) = lowered(list, r)[i]
    <3> HIDE DEF f
    <3> QED
      BY <2>1
  <2> HIDE DEF f
  <2>3. \A i \in 1..Len(list) : f(i) \in AccessNet
    BY <1>4, <2>2
  <2> QED
    BY <2>1, <2>3
<1>6. lowered(list, r) \in Seq(AccessNet)
  <2>1. Len(list) \in Nat
    OBVIOUS
  <2> HIDE DEF lowered
  <2> QED
    BY <1>5, <2>1
<1>7. DOMAIN lowered(list, r) = DOMAIN list
  BY DEF lowered
<1> QED
  BY <1>4, <1>6, <1>7

(***************************************************************************)
(* Lists with the same networks contain a host in the same entries.        *)
(***************************************************************************)
LEMMA SameNets ==
  ASSUME NEW l1, NEW l2, DOMAIN l1 = DOMAIN l2,
         \A i \in DOMAIN l1 : l1[i].net = l2[i].net, NEW h
  PROVE  /\ containing(l1, h) = containing(l2, h)
         /\ \A i : firstMatch(l1, h, i) <=> firstMatch(l2, h, i)
BY DEF containing, firstMatch

(***************************************************************************)
(* An entry at the end changes the first match of no host that had one.    *)
(***************************************************************************)
LEMMA AppendKeepsFirst ==
  ASSUME NEW list \in Seq(AccessNet), NEW e \in AccessNet, NEW h,
         containing(list, h) # {}
  PROVE  /\ containing(Append(list, e), h) # {}
         /\ \A i \in DOMAIN Append(list, e) :
              firstMatch(Append(list, e), h, i) =>
                i \in DOMAIN list /\ firstMatch(list, h, i)
<1> DEFINE new == Append(list, e)
<1>1. /\ DOMAIN new = 1..(Len(list) + 1) /\ DOMAIN list = 1..Len(list)
      /\ Len(list) \in Nat
      /\ \A i \in DOMAIN list : new[i] = list[i]
  OBVIOUS
<1> HIDE DEF new
<1>2. \A i \in DOMAIN list : i \in containing(new, h) <=> i \in containing(list, h)
  BY <1>1 DEF containing
<1>3. PICK j \in DOMAIN list : j \in containing(list, h) /\ j \in containing(new, h)
  BY <1>2 DEF containing
<1>4. ASSUME NEW i \in DOMAIN new, firstMatch(new, h, i)
      PROVE  i \in DOMAIN list /\ firstMatch(list, h, i)
  <2>1. i \in containing(new, h) /\ i <= j
    BY <1>3, <1>4 DEF firstMatch
  <2>2. i \in DOMAIN list
    BY <1>1, <2>1
  <2>3. \A k \in containing(list, h) : k \in containing(new, h)
    BY <1>2 DEF containing
  <2> QED
    BY <1>2, <1>4, <2>2, <2>3 DEF firstMatch
<1> QED
  BY <1>3, <1>4 DEF new
(***************************************************************************)
(* Levels are numbers, and the lines of the file are lines.                *)
(***************************************************************************)
LEMMA Levels ==
  /\ \A e \in AccessNet : e.level \in Nat
  /\ \A r \in Lines : /\ r \in AccessRight
                      /\ r.level \in Level /\ r.level \in Nat
                      /\ [net |-> r.net, level |-> r.level] \in AccessNet
                      /\ r.parses => r.ip \in Contains[r.net]
<1>1. Level \subseteq Nat
  BY DEF Level, ACCESS_LEVEL_NONE, ACCESS_LEVEL_USER, ACCESS_LEVEL_ADMIN
<1>2. \A e \in AccessNet : e.level \in Level
  BY DEF AccessNet
<1>3. \A r \in AccessRight :
         r.level \in Level /\ [net |-> r.net, level |-> r.level] \in AccessNet
  BY DEF AccessRight, AccessNet
<1> QED
  BY <1>1, <1>2, <1>3, AccessListAssumption

(***************************************************************************)
(* The initial states satisfy AInv.                                        *)
(***************************************************************************)
LEMMA InitAInv == Init => AInv
<1> SUFFICES ASSUME Init PROVE AInv
  OBVIOUS
<1>1. rights \in Seq(Lines) /\ netAccessList \in Seq(AccessNet)
  BY DEF Init
<1>2. Len(rights) = 0 /\ pos = 0 /\ DOMAIN rights = {} /\ DOMAIN netAccessList = {}
  BY DEF Init
<1>3. TypeRights
  <2>1. MaxLoads \in Nat
    BY AccessListAssumption
  <2>2. pos \in 0..Len(rights) /\ loads \in 0..MaxLoads
    BY <1>2, <2>1 DEF Init
  <2>3. locked \in BOOLEAN
    BY DEF Init
  <2> QED
    BY <1>1, <2>2, <2>3 DEF TypeRights
<1>4. TypeAnswer /\ NeverElevated /\ Restricting
  BY <1>2 DEF Init, TypeAnswer, NeverElevated, Restricting, noAnswer
<1>5. Justified /\ Ceiling
  BY <1>2 DEF Justified, Ceiling
<1> QED
  BY <1>1, <1>2, <1>3, <1>4, <1>5 DEF AInv

(***************************************************************************)
(* A line whose address is in no entry is appended.                        *)
(***************************************************************************)
LEMMA AppendStep ==
  ASSUME AInv, ApplyRight, rights[pos + 1].parses,
         containing(netAccessList, rights[pos + 1].ip) = {}
  PROVE  netAccessList' \in Seq(AccessNet) /\ Justified' /\ Ceiling'
<1> DEFINE r == rights[pos + 1]
           e == [net |-> r.net, level |-> r.level]
<1>1. /\ rights \in Seq(Lines) /\ pos \in Nat /\ pos + 1 \in 1..Len(rights)
      /\ netAccessList \in Seq(AccessNet)
      /\ rights' = rights /\ pos' = pos + 1
  BY DEF AInv, TypeRights, ApplyRight
<1>2. r \in Lines /\ e \in AccessNet /\ r.level \in Nat /\ r.ip \in Contains[e.net]
  BY <1>1, Levels
<1>3. netAccessList' = Append(netAccessList, e)
  BY DEF ApplyRight, addRight
<1>e. e.net = r.net /\ e.level = r.level
  OBVIOUS
<1> HIDE DEF r, e
<1>4. netAccessList' \in Seq(AccessNet)
  BY <1>1, <1>2, <1>3
<1>5. /\ DOMAIN netAccessList' = DOMAIN netAccessList \cup {Len(netAccessList) + 1}
      /\ \A i \in DOMAIN netAccessList : netAccessList'[i] = netAccessList[i]
      /\ netAccessList'[Len(netAccessList) + 1] = e
  BY <1>1, <1>2, <1>3
<1>6. Justified'
  <2>1. ASSUME NEW i \in DOMAIN netAccessList
        PROVE  \E k \in 1..pos' : /\ rights'[k].parses
                                  /\ netAccessList'[i].net = rights'[k].net
                                  /\ netAccessList'[i].level <= rights'[k].level
    <3>1. PICK k \in 1..pos : /\ rights[k].parses
                              /\ netAccessList[i].net = rights[k].net
                              /\ netAccessList[i].level <= rights[k].level
      BY DEF AInv, Justified
    <3>2. k \in 1..pos'
      BY <1>1
    <3> QED
      BY <1>1, <1>5, <3>1, <3>2
  <2>2. \E k \in 1..pos' : /\ rights'[k].parses
                           /\ e.net = rights'[k].net
                           /\ e.level <= rights'[k].level
    <3>1. pos + 1 \in 1..pos'
      BY <1>1
    <3>2. rights'[pos + 1] = r /\ r.parses
      BY <1>1 DEF r
    <3> QED
      BY <1>2, <1>e, <3>1, <3>2
  <2> QED
    BY <1>5, <2>1, <2>2 DEF Justified
<1>7. ASSUME NEW k \in 1..pos, rights[k].parses
      PROVE  /\ containing(netAccessList', rights[k].ip) # {}
             /\ \A i \in DOMAIN netAccessList' :
                  firstMatch(netAccessList', rights[k].ip, i) =>
                    netAccessList'[i].level <= rights[k].level
  <2>1. /\ containing(netAccessList, rights[k].ip) # {}
        /\ \A i \in DOMAIN netAccessList :
             firstMatch(netAccessList, rights[k].ip, i) =>
               netAccessList[i].level <= rights[k].level
    BY <1>7 DEF AInv, Ceiling
  <2>2. /\ containing(netAccessList', rights[k].ip) # {}
        /\ \A i \in DOMAIN netAccessList' :
             firstMatch(netAccessList', rights[k].ip, i) =>
               i \in DOMAIN netAccessList /\ firstMatch(netAccessList, rights[k].ip, i)
    BY <1>1, <1>2, <1>3, <2>1, AppendKeepsFirst
  <2> QED
    BY <1>5, <2>1, <2>2
<1>8. /\ containing(netAccessList', r.ip) # {}
      /\ \A i \in DOMAIN netAccessList' :
           firstMatch(netAccessList', r.ip, i) => netAccessList'[i].level <= r.level
  <2>1. Len(netAccessList) + 1 \in containing(netAccessList', r.ip)
    BY <1>2, <1>5 DEF containing
  <2>2. ASSUME NEW i \in DOMAIN netAccessList', i # Len(netAccessList) + 1
        PROVE  i \notin containing(netAccessList', r.ip)
    BY <1>5, <2>2 DEF containing, r
  <2> QED
    BY <1>2, <1>5, <1>e, <2>1, <2>2 DEF firstMatch
<1>9. \A k \in 1..pos' : k \in 1..pos \/ (k = pos + 1 /\ rights[k] = r)
  BY <1>1 DEF r
<1>10. Ceiling'
  BY <1>1, <1>7, <1>8, <1>9 DEF Ceiling, containing, firstMatch
<1> QED
  BY <1>4, <1>6, <1>10
(***************************************************************************)
(* A line whose address is in some entry lowers the entries around it.     *)
(***************************************************************************)
LEMMA LoweredStep ==
  ASSUME AInv, ApplyRight, rights[pos + 1].parses,
         containing(netAccessList, rights[pos + 1].ip) # {}
  PROVE  netAccessList' \in Seq(AccessNet) /\ Justified' /\ Ceiling'
<1> DEFINE r == rights[pos + 1]
<1>1. /\ rights \in Seq(Lines) /\ pos \in Nat /\ pos + 1 \in 1..Len(rights)
      /\ netAccessList \in Seq(AccessNet)
      /\ rights' = rights /\ pos' = pos + 1
  BY DEF AInv, TypeRights, ApplyRight
<1>2. r \in Lines /\ r \in AccessRight /\ r.level \in Nat
  <2>1. r \in Lines
    BY <1>1
  <2> QED
    BY <2>1, Levels
<1>3. netAccessList' = lowered(netAccessList, r)
  BY DEF ApplyRight, addRight
<1> HIDE DEF r
<1>4. /\ netAccessList' \in Seq(AccessNet)
      /\ DOMAIN netAccessList' = DOMAIN netAccessList
      /\ \A i \in DOMAIN netAccessList :
           /\ netAccessList'[i].net = netAccessList[i].net
           /\ netAccessList'[i].level <= netAccessList[i].level
           /\ i \in containing(netAccessList, r.ip) =>
                netAccessList'[i].level <= r.level
  BY <1>1, <1>2, <1>3, LoweredFacts
<1>5. \A i \in DOMAIN netAccessList :
         netAccessList[i].level \in Nat /\ netAccessList'[i].level \in Nat
  BY <1>1, <1>4, Levels
<1>6. \A k \in 1..pos : k \in 1..pos' /\ rights[k].level \in Nat
  <2>1. \A k \in 1..pos : k \in 1..pos' /\ rights[k] \in Lines
    BY <1>1
  <2> QED
    BY <2>1, Levels
<1>7. Justified'
  <2>1. ASSUME NEW i \in DOMAIN netAccessList'
        PROVE  \E k \in 1..pos' : /\ rights'[k].parses
                                  /\ netAccessList'[i].net = rights'[k].net
                                  /\ netAccessList'[i].level <= rights'[k].level
    <3>1. i \in DOMAIN netAccessList
      BY <1>4
    <3>2. PICK k \in 1..pos : /\ rights[k].parses
                              /\ netAccessList[i].net = rights[k].net
                              /\ netAccessList[i].level <= rights[k].level
      BY <3>1 DEF AInv, Justified
    <3>3. netAccessList'[i].level <= rights[k].level
      BY <1>4, <1>5, <1>6, <3>1, <3>2
    <3> QED
      BY <1>1, <1>4, <1>6, <3>1, <3>2, <3>3
  <2> QED
    BY <2>1 DEF Justified
<1>8. ASSUME NEW h
      PROVE  /\ containing(netAccessList', h) = containing(netAccessList, h)
             /\ \A i : firstMatch(netAccessList', h, i) <=>
                      firstMatch(netAccessList, h, i)
  BY <1>4, SameNets
<1>9. ASSUME NEW k \in 1..pos, rights[k].parses
      PROVE  /\ containing(netAccessList', rights[k].ip) # {}
             /\ \A i \in DOMAIN netAccessList' :
                  firstMatch(netAccessList', rights[k].ip, i) =>
                    netAccessList'[i].level <= rights[k].level
  <2>1. /\ containing(netAccessList, rights[k].ip) # {}
        /\ \A i \in DOMAIN netAccessList :
             firstMatch(netAccessList, rights[k].ip, i) =>
               netAccessList[i].level <= rights[k].level
    BY <1>9 DEF AInv, Ceiling
  <2>2. containing(netAccessList', rights[k].ip) # {}
    BY <1>8, <2>1
  <2>3. ASSUME NEW i \in DOMAIN netAccessList',
               firstMatch(netAccessList', rights[k].ip, i)
        PROVE  netAccessList'[i].level <= rights[k].level
    <3>1. i \in DOMAIN netAccessList /\ firstMatch(netAccessList, rights[k].ip, i)
      BY <1>4, <1>8, <2>3
    <3> QED
      BY <1>4, <1>5, <1>6, <2>1, <3>1
  <2> QED
    BY <2>2, <2>3
<1>10. /\ containing(netAccessList', r.ip) # {}
       /\ \A i \in DOMAIN netAccessList' :
            firstMatch(netAccessList', r.ip, i) => netAccessList'[i].level <= r.level
  <2>1. containing(netAccessList', r.ip) # {}
    BY <1>8 DEF r
  <2>2. ASSUME NEW i \in DOMAIN netAccessList', firstMatch(netAccessList', r.ip, i)
        PROVE  netAccessList'[i].level <= r.level
    <3>1. i \in containing(netAccessList, r.ip)
      BY <1>8, <2>2 DEF firstMatch
    <3> QED
      BY <1>4, <3>1
  <2> QED
    BY <2>1, <2>2
<1>11. \A k \in 1..pos' : k \in 1..pos \/ (k = pos + 1 /\ rights[k] = r)
  BY <1>1 DEF r
<1>12. Ceiling'
  BY <1>1, <1>9, <1>10, <1>11 DEF Ceiling, containing, firstMatch
<1> QED
  BY <1>4, <1>7, <1>12

(***************************************************************************)
(* Every turn of cfgNet's loop keeps the list justified and under the      *)
(* ceilings of the lines read.                                             *)
(***************************************************************************)
LEMMA ApplyStep ==
  ASSUME AInv, ApplyRight
  PROVE  netAccessList' \in Seq(AccessNet) /\ Justified' /\ Ceiling'
<1>1. CASE ~rights[pos + 1].parses
  <2>1. /\ netAccessList' = netAccessList /\ rights' = rights /\ pos' = pos + 1
        /\ pos \in Nat
    BY <1>1 DEF ApplyRight, AInv, TypeRights
  <2>2. \A k \in 1..pos' : k \in 1..pos \/ k = pos + 1
    BY <2>1
  <2>3. 1..pos \subseteq 1..pos'
    BY <2>1
  <2>4. Justified'
    BY <2>1, <2>3 DEF AInv, Justified
  <2>5. Ceiling'
    BY <1>1, <2>1, <2>2 DEF AInv, Ceiling, containing, firstMatch
  <2> QED
    BY <2>1, <2>4, <2>5 DEF AInv
<1> QED
  BY <1>1, AppendStep, LoweredStep
(***************************************************************************)
(* A lookup of a host answers within the file: not above the network that  *)
(* justifies the entry, and not above a line that names the host.          *)
(***************************************************************************)
LEMMA LookupStep ==
  ASSUME AInv, NEW h \in Host, GetAccessLevel(h)
  PROVE  TypeAnswer' /\ NeverElevated' /\ Restricting'
<1>1. /\ netAccessList \in Seq(AccessNet) /\ rights \in Seq(Lines)
      /\ pos = Len(rights) /\ rights' = rights
      /\ answer' = [host |-> h, level |-> getAccessLevel(netAccessList, h)]
  BY DEF AInv, TypeRights, GetAccessLevel
<1>2. answer'.host = h /\ answer'.level = getAccessLevel(netAccessList, h)
  BY <1>1
<1>3. DOMAIN rights = 1..pos
  BY <1>1
<1>4. \A k \in 1..pos : rights[k].level \in Nat
  <2>1. \A k \in 1..pos : rights[k] \in Lines
    BY <1>1
  <2> QED
    BY <2>1, Levels
<1>5. CASE containing(netAccessList, h) = {}
  <2>1. answer'.level = ACCESS_LEVEL_NONE
    BY <1>2, <1>5 DEF getAccessLevel
  <2>2. TypeAnswer'
    BY <1>1, <1>2, <2>1 DEF TypeAnswer, Level
  <2>3. Restricting'
    BY <1>1, <1>3, <1>4, <2>1 DEF Restricting, ACCESS_LEVEL_NONE
  <2> QED
    BY <2>1, <2>2, <2>3 DEF NeverElevated
<1>6. CASE containing(netAccessList, h) # {}
  <2>1. PICK i \in DOMAIN netAccessList :
               /\ firstMatch(netAccessList, h, i)
               /\ getAccessLevel(netAccessList, h) = netAccessList[i].level
    BY <1>1, <1>6, LookupIsFirst
  <2>2. netAccessList[i] \in AccessNet /\ h \in Contains[netAccessList[i].net]
    BY <1>1, <2>1 DEF firstMatch, containing
  <2>3. TypeAnswer'
    <3>1. netAccessList[i].level \in Level
      BY <2>2 DEF AccessNet
    <3> QED
      BY <1>1, <2>1, <3>1 DEF TypeAnswer
  <2>4. NeverElevated'
    <3>1. PICK k \in 1..pos : /\ rights[k].parses
                              /\ netAccessList[i].net = rights[k].net
                              /\ netAccessList[i].level <= rights[k].level
      BY DEF AInv, Justified
    <3> QED
      BY <1>1, <1>2, <1>3, <2>1, <2>2, <3>1 DEF NeverElevated
  <2>5. ASSUME NEW k \in 1..pos, rights[k].parses, h = rights[k].ip
        PROVE  netAccessList[i].level <= rights[k].level
    BY <2>1, <2>5 DEF AInv, Ceiling
  <2>6. Restricting'
    BY <1>1, <1>2, <1>3, <2>1, <2>5 DEF Restricting
  <2> QED
    BY <2>3, <2>4, <2>6
<1> QED
  BY <1>5, <1>6

(***************************************************************************)
(* Every step preserves AInv.                                              *)
(***************************************************************************)
LEMMA NextAInv == AInv /\ [Next]_vars => AInv'
<1> SUFFICES ASSUME AInv, [Next]_vars PROVE AInv'
  OBVIOUS
<1>1. CASE cfgNet
  <2>1. PICK n \in 0..MaxLines : \E ls \in [1..n -> Lines] : rights' = ls
    BY <1>1 DEF cfgNet
  <2>2. /\ rights' \in Seq(Lines) /\ Len(rights') \in Nat
        /\ DOMAIN rights' = 1..Len(rights')
    BY <2>1
  <2>3. /\ pos' = 0 /\ locked' = TRUE /\ netAccessList' = <<>>
        /\ answer' = noAnswer /\ loads' = loads + 1 /\ loads < MaxLoads
    BY <1>1 DEF cfgNet
  <2>4. TypeRights'
    <3>1. loads' \in 0..MaxLoads /\ pos' \in 0..Len(rights')
      BY <2>2, <2>3, AccessListAssumption DEF AInv, TypeRights
    <3> QED
      BY <2>2, <2>3, <3>1 DEF TypeRights
  <2>5. netAccessList' \in Seq(AccessNet) /\ DOMAIN netAccessList' = {}
    BY <2>3
  <2>6. TypeAnswer' /\ NeverElevated'
    BY <2>3 DEF TypeAnswer, NeverElevated, noAnswer
  <2>7. Restricting'
    <3>1. \A k \in DOMAIN rights' : rights'[k] \in Lines
      BY <2>2
    <3>2. \A k \in DOMAIN rights' : rights'[k].level \in Nat
      BY <3>1, Levels
    <3>3. answer'.level = 0
      BY <2>3 DEF noAnswer, ACCESS_LEVEL_NONE
    <3>4. \A k \in DOMAIN rights' : answer'.level <= rights'[k].level
      BY <3>2, <3>3
    <3> QED
      BY <3>4 DEF Restricting
  <2>8. Justified' /\ Ceiling'
    BY <2>3, <2>5 DEF Justified, Ceiling
  <2> QED
    BY <2>3, <2>4, <2>5, <2>6, <2>7, <2>8 DEF AInv
<1>2. CASE ApplyRight
  <2>1. TypeRights' /\ locked'
    BY <1>2 DEF AInv, TypeRights, ApplyRight
  <2>2. TypeAnswer' /\ NeverElevated' /\ Restricting'
    BY <1>2 DEF AInv, ApplyRight, TypeAnswer, NeverElevated, Restricting
  <2> QED
    BY <1>2, <2>1, <2>2, ApplyStep DEF AInv
<1>3. CASE Unlock
  <2>1. /\ TypeRights' /\ netAccessList' \in Seq(AccessNet)
        /\ pos' = Len(rights')
    BY <1>3 DEF AInv, TypeRights, Unlock
  <2>2. TypeAnswer' /\ NeverElevated' /\ Restricting'
    BY <1>3 DEF AInv, Unlock, TypeAnswer, NeverElevated, Restricting
  <2>3. Justified' /\ Ceiling'
    BY <1>3 DEF AInv, Unlock, Justified, Ceiling, containing, firstMatch
  <2> QED
    BY <2>1, <2>2, <2>3 DEF AInv
<1>4. ASSUME NEW h \in Host, GetAccessLevel(h) PROVE AInv'
  <2>1. /\ TypeRights' /\ netAccessList' \in Seq(AccessNet)
        /\ ~locked' => pos' = Len(rights')
    BY <1>4 DEF AInv, TypeRights, GetAccessLevel
  <2>2. Justified' /\ Ceiling'
    BY <1>4 DEF AInv, GetAccessLevel, Justified, Ceiling, containing, firstMatch
  <2> QED
    BY <1>4, <2>1, <2>2, LookupStep DEF AInv
<1>5. CASE UNCHANGED vars
  <2>1. /\ TypeRights' /\ netAccessList' \in Seq(AccessNet)
        /\ ~locked' => pos' = Len(rights')
    BY <1>5 DEF AInv, TypeRights, vars
  <2>2. TypeAnswer' /\ NeverElevated' /\ Restricting'
    BY <1>5 DEF AInv, vars, TypeAnswer, NeverElevated, Restricting
  <2>3. Justified' /\ Ceiling'
    BY <1>5 DEF AInv, vars, Justified, Ceiling, containing, firstMatch
  <2> QED
    BY <2>1, <2>2, <2>3 DEF AInv
<1> QED
  BY <1>1, <1>2, <1>3, <1>4, <1>5 DEF Next

(***************************************************************************)
(* Every reachable state of the access list satisfies AInv.                *)
(***************************************************************************)
THEOREM AccessListInvariant == Spec => []AInv
BY InitAInv, NextAInv, PTL DEF Spec

(***************************************************************************)
(* The type invariant of the access list.                                  *)
(***************************************************************************)
THEOREM AccessListTypeCorrect == Spec => []AccessListTypeOK
<1>1. AInv => AccessListTypeOK
  BY DEF AInv, AccessListTypeOK, TypeRights, TypeAnswer
<1> QED
  BY <1>1, AccessListInvariant, PTL

(***************************************************************************)
(* No request is granted a level that no line of the ini file gives the    *)
(* networks of its host, however the networks overlap.                     *)
(***************************************************************************)
THEOREM NeverElevatedHolds == Spec => []NeverElevated
BY AccessListInvariant, PTL DEF AInv

(***************************************************************************)
(* A line that names the host is a ceiling, wherever it stands.            *)
(***************************************************************************)
THEOREM RestrictingHolds == Spec => []Restricting
BY AccessListInvariant, PTL DEF AInv
=============================================================================
