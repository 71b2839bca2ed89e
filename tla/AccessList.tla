----------------------------- MODULE AccessList -----------------------------
(***************************************************************************)
(* The access list of netAccessLevel.go: cfgNet rebuilds it from the       *)
(* AccessRights of the ini file, one entry after the other, and requests   *)
(* look their host up.                                                     *)
(*                                                                         *)
(* A network is a model value with the hosts it contains.  A line of       *)
(* AccessRights is what net.ParseCIDR and parseAccessLevel make of it: the *)
(* address written before the '/', the network around that address, and    *)
(* the level; parses is FALSE for a line ParseCIDR refuses.  cfgNet holds   *)
(* netCfgLock for the whole rebuild and GetAccessLevel takes it for        *)
(* reading, so the steps of a rebuild are visible only to the rebuild.     *)
(***************************************************************************)
EXTENDS Integers, Sequences

CONSTANTS Host,      \* addresses of clients, and of AccessRights lines
          Net,       \* networks
          Contains,  \* the hosts of a network: [Net -> SUBSET Host]
          Lines,     \* lines an ini file may have
          MaxLines,  \* bound: lines of one ini file
          MaxLoads   \* bound: rebuilds of the list

ACCESS_LEVEL_NONE == 0
ACCESS_LEVEL_USER == 1
ACCESS_LEVEL_ADMIN == 2
Level == {ACCESS_LEVEL_NONE, ACCESS_LEVEL_USER, ACCESS_LEVEL_ADMIN}

AccessRight == [parses : BOOLEAN, ip : Host, net : Net, level : Level]
AccessNet == [net : Net, level : Level]

ASSUME AccessListAssumption ==
  /\ Contains \in [Net -> SUBSET Host]
  /\ Lines \subseteq AccessRight
  \* ParseCIDR returns the network that the address lies in
  /\ \A l \in Lines : l.parses => l.ip \in Contains[l.net]
  /\ MaxLines \in Nat /\ MaxLoads \in Nat

VARIABLES
  rights,         \* the AccessRights lines of the ini file being applied
  pos,            \* how many of them the rebuild has gone through
  locked,         \* cfgNet holds netCfgLock
  netAccessList,  \* the list
  answer,         \* the last lookup since cfgNet took the lock (history)
  loads           \* rebuilds so far

vars == <<rights, pos, locked, netAccessList, answer, loads>>

noAnswer == [host |-> "none", level |-> ACCESS_LEVEL_NONE]

-----------------------------------------------------------------------------
(***************************************************************************)
(* Rebuilding.                                                             *)
(***************************************************************************)

\* the entries whose Subnet contains ip
containing(list, ip) == {i \in DOMAIN list : ip \in Contains[list[i].net]}

\* every entry around the new address that grants more is lowered
lowered(list, r) ==
  [i \in DOMAIN list |->
     IF i \in containing(list, r.ip) /\ r.level < list[i].level
     THEN [list[i] EXCEPT !.level = r.level] ELSE list[i]]

\* mutant: the networks around the address take the new level, lower or not
addRightOverwrites(list, r) ==
  IF containing(list, r.ip) = {}
  THEN Append(list, [net |-> r.net, level |-> r.level])
  ELSE [i \in DOMAIN list |->
          IF i \in containing(list, r.ip)
          THEN [list[i] EXCEPT !.level = r.level] ELSE list[i]]

\* one turn of the loop over vals
addRight(list, r) ==
  IF containing(list, r.ip) = {}
  THEN Append(list, [net |-> r.net, level |-> r.level])
  ELSE lowered(list, r)

Init ==
  /\ rights = <<>>
  /\ pos = 0
  /\ locked = FALSE
  /\ netAccessList = <<>>
  /\ answer = noAnswer
  /\ loads = 0

\* cfgNet begins: it has the lock, and the list is empty
cfgNet ==
  /\ ~locked
  /\ loads < MaxLoads
  /\ loads' = loads + 1
  /\ \E n \in 0..MaxLines : \E ls \in [1..n -> Lines] : rights' = ls
  /\ pos' = 0
  /\ locked' = TRUE
  /\ netAccessList' = <<>>
  /\ answer' = noAnswer

ApplyRight ==
  /\ locked
  /\ pos < Len(rights)
  /\ pos' = pos + 1
  /\ netAccessList' = IF rights[pos + 1].parses
                      THEN addRight(netAccessList, rights[pos + 1])
                      ELSE netAccessList
  /\ UNCHANGED <<rights, locked, answer, loads>>

Unlock ==
  /\ locked
  /\ pos = Len(rights)
  /\ locked' = FALSE
  /\ UNCHANGED <<rights, pos, netAccessList, answer, loads>>

-----------------------------------------------------------------------------
(***************************************************************************)
(* Looking up.                                                             *)
(***************************************************************************)

\* entry i answers for host h: the first one that contains it
firstMatch(list, h, i) ==
  /\ i \in containing(list, h)
  /\ \A j \in containing(list, h) : i <= j

getAccessLevel(list, h) ==
  IF containing(list, h) = {} THEN ACCESS_LEVEL_NONE
  ELSE list[CHOOSE i \in DOMAIN list : firstMatch(list, h, i)].level

\* mutant: the lookup does not take the lock
GetAccessLevelUnlocked(h) ==
  /\ answer' = [host |-> h, level |-> getAccessLevel(netAccessList, h)]
  /\ UNCHANGED <<rights, pos, locked, netAccessList, loads>>

\* a request; a host that ParseIP refuses is in no network
GetAccessLevel(h) ==
  /\ ~locked
  /\ answer' = [host |-> h, level |-> getAccessLevel(netAccessList, h)]
  /\ UNCHANGED <<rights, pos, locked, netAccessList, loads>>

Next == cfgNet \/ ApplyRight \/ Unlock \/ \E h \in Host : GetAccessLevel(h)

Spec == Init /\ [][Next]_vars
-----------------------------------------------------------------------------
AccessListTypeOK ==
  /\ rights \in Seq(Lines) /\ pos \in 0..Len(rights)
  /\ locked \in BOOLEAN /\ loads \in 0..MaxLoads
  /\ netAccessList \in Seq(AccessNet)
  /\ answer \in [host : Host, level : Level] \cup {noAnswer}

\* A request is never granted more than the ini file gives: a level above none
\* was written on a line whose network contains the host, at least that high.
\* Concerns cfgNet's merging of overlapping networks and the lookup's lock.
NeverElevated ==
  answer.level # ACCESS_LEVEL_NONE =>
    \E k \in DOMAIN rights :
      /\ rights[k].parses
      /\ answer.host \in Contains[rights[k].net]
      /\ answer.level <= rights[k].level

\* A line that names the host itself is a ceiling, wherever it stands in the
\* file and whatever networks come before or after it; and no request sees a
\* list in which it is not applied yet.
Restricting ==
  \A k \in DOMAIN rights :
    (rights[k].parses /\ answer.host = rights[k].ip) =>
      answer.level <= rights[k].level

\* "netAccessList maps CIDR networks to access levels" (netAccessLevel.go:27):
\* when the rebuild is over, every host of every network of the file is in some
\* network of the list.  cfgNet drops a network whose written address lies in
\* an earlier, narrower one, so the hosts around it fall to none.
NetsListed ==
  ~locked =>
    \A k \in DOMAIN rights : rights[k].parses =>
      \A h \in Contains[rights[k].net] : containing(netAccessList, h) # {}
=============================================================================
