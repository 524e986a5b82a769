---------------------------- MODULE SessionManager ----------------------------
(***************************************************************************)
(* The session registry of the server: network/session.go, together with   *)
(* the part of the handshake (game/server.go) that allocates a session,    *)
(* inserts it and makes its name unique under nickMu.                      *)
(*                                                                         *)
(* Three indexes describe one set of live sessions: `sessions` (by session *)
(* id), `byAddr` (by UDP endpoint) and the slice `allCached` handed out by *)
(* GetAll.  Every method of SessionManager runs under one mutex, so each   *)
(* is one action; the handshake makes two such calls while it holds nickMu *)
(* and other goroutines run between them.                                  *)
(*                                                                         *)
(* A packet of an endpoint is always handled by the same worker (the       *)
(* listener hashes the address), so one endpoint runs at most one          *)
(* handshake at a time; `pending` records it.                              *)
(*                                                                         *)
(* A session is a pointer in the code.  Here it is a record whose `num`    *)
(* is the number of the handshake that built it, which is never reused;    *)
(* the session id is that number in the width of the atomic counter that   *)
(* allocates it, so ids do recur once the counter has wrapped.             *)
(***************************************************************************)
EXTENDS Integers, FiniteSets

CONSTANTS
  Addr,            \* UDP endpoints
  Account,         \* account UUIDs (an empty UUID is refused before this point)
  Name,            \* nicknames, compared without case
  Suffixed(_, _),  \* the name "<base>~<n>", base cut so that it fits 31 bytes
  MaxPlayers,      \* the cap; 0 means uncapped
  IdSpace,         \* number of session ids: 2^32 in the code
  MaxHandshakes,   \* bound on the number of handshakes
  Nil              \* the nil pointer, and "no endpoint"

Session == [num: Nat, addr: Addr, account: Account, nick: Name]
Id == 0 .. IdSpace - 1
IdOf(s) == s.num % IdSpace

ASSUME MaxPlayersAssumption == MaxPlayers \in Nat
ASSUME IdSpaceAssumption == IdSpace \in Nat \ {0}
ASSUME MaxHandshakesAssumption == MaxHandshakes \in Nat
ASSUME NilAssumption == Nil \notin Session /\ Nil \notin Addr

\* Two numbers never give the same name, whatever the base was cut to.
ASSUME SuffixAssumption ==
  \A b \in Name : \A m, n \in 2 .. IdSpace + 1 :
    /\ Suffixed(b, m) \in Name
    /\ Suffixed(b, m) = Suffixed(b, n) => m = n

VARIABLES
  seq,        \* sessionIDSeq: handshakes that built a session so far
  pending,    \* the session each endpoint's worker is adding, or Nil
  nickMu,     \* the endpoint whose worker holds nickMu, or Nil
  sessions,   \* SessionManager.sessions
  byAddr,     \* SessionManager.byAddr
  allCached,  \* SessionManager.allCached
  name        \* the displayed name of sessions[i]

vars == <<seq, pending, nickMu, sessions, byAddr, allCached, name>>

(***************************************************************************)
(* Helpers over the maps of the registry.                                  *)
(***************************************************************************)
Ids(tab) == {i \in Id : tab[i] # Nil}
Entries(tab) == {tab[i] : i \in Ids(tab)}

\* delete(map, key) for every key of K
Without(tab, K) == [k \in DOMAIN tab |-> IF k \in K THEN Nil ELSE tab[k]]

Live == Entries(sessions)

(***************************************************************************)
(* TryAddCapped, step by step: the ids evicted for the address, the ids    *)
(* evicted for the account, then the cap.                                  *)
(***************************************************************************)
\* Mutant: the endpoint's old session is not looked for.
MutSameAddr(s) == {}

SameAddr(s) ==
  IF byAddr[s.addr] = Nil
  THEN {}
  ELSE {i \in Ids(sessions) \ {IdOf(s)} : sessions[i].addr = s.addr}

AfterAddr(s) == Without(sessions, SameAddr(s))

SameAccount(s) ==
  {i \in Ids(AfterAddr(s)) \ {IdOf(s)} : sessions[i].account = s.account}

AfterAccount(s) == Without(AfterAddr(s), SameAccount(s))

\* Mutant: the account eviction forgets the index by endpoint.
MutByAddrAfterAccount(s) == byAddr

ByAddrAfterAccount(s) ==
  Without(byAddr, {sessions[i].addr : i \in SameAccount(s)})

\* Mutants: the cap is off by one; the cap is tested before the evictions.
MutAtCapOffByOne(s) ==
  /\ MaxPlayers > 0
  /\ Cardinality(Ids(AfterAccount(s))) > MaxPlayers
  /\ AfterAccount(s)[IdOf(s)] = Nil

MutAtCapEarly(s) ==
  /\ MaxPlayers > 0
  /\ Cardinality(Ids(sessions)) >= MaxPlayers
  /\ sessions[IdOf(s)] = Nil

AtCap(s) ==
  /\ MaxPlayers > 0
  /\ Cardinality(Ids(AfterAccount(s))) >= MaxPlayers
  /\ AfterAccount(s)[IdOf(s)] = Nil

\* The entry of a session with the same id is dropped before the new one is set.
ByAddrInserted(s) ==
  LET old == AfterAccount(s)[IdOf(s)]
      stale == IF old = Nil THEN {} ELSE {old.addr}
  IN [Without(ByAddrAfterAccount(s), stale) EXCEPT ![s.addr] = s]

SessionsInserted(s) == [AfterAccount(s) EXCEPT ![IdOf(s)] = s]

\* Every session that TryAddCapped takes out for s.
Evicted(s) == Live \ Entries(SessionsInserted(s))

(***************************************************************************)
(* EnsureUniqueName: the base name, or the first free suffix.              *)
(***************************************************************************)
Taken(s) == {name[i] : i \in {j \in Ids(sessions) : sessions[j] # s}}

FreeSuffixes(base, taken) ==
  {n \in 2 .. IdSpace + 1 : Suffixed(base, n) \notin taken}

\* Mutant: the first suffix is taken to be free.
MutUniqueName(base, taken) ==
  IF base \notin taken THEN base ELSE Suffixed(base, 2)

UniqueName(base, taken) ==
  IF base \notin taken
  THEN base
  ELSE Suffixed(base, CHOOSE n \in FreeSuffixes(base, taken) :
                        \A m \in FreeSuffixes(base, taken) : n <= m)

-----------------------------------------------------------------------------
Init ==
  /\ seq = 0
  /\ pending = [a \in Addr |-> Nil]
  /\ nickMu = Nil
  /\ sessions = [i \in Id |-> Nil]
  /\ byAddr = [a \in Addr |-> Nil]
  /\ allCached = {}
  /\ name \in [Id -> Name]

\* The handshake builds a session for endpoint a.
NewSession(a, acc, nick) ==
  /\ seq < MaxHandshakes
  /\ pending[a] = Nil
  /\ seq' = seq + 1
  /\ pending' = [pending EXCEPT ![a] =
       [num |-> seq + 1, addr |-> a, account |-> acc, nick |-> nick]]
  /\ UNCHANGED <<nickMu, sessions, byAddr, allCached, name>>

\* TryAddCapped inserts the session; the handshake keeps nickMu.
Insert(s) ==
  /\ sessions' = SessionsInserted(s)
  /\ byAddr' = ByAddrInserted(s)
  /\ allCached' = Entries(sessions')
  /\ name' = [name EXCEPT ![IdOf(s)] = s.nick]
  /\ nickMu' = s.addr
  /\ UNCHANGED pending

\* TryAddCapped returns false: what it deleted stays deleted, the cache is not
\* rebuilt, and the handshake releases nickMu and answers "server full".
Reject(s) ==
  /\ sessions' = AfterAccount(s)
  /\ byAddr' = ByAddrAfterAccount(s)
  /\ pending' = [pending EXCEPT ![s.addr] = Nil]
  /\ UNCHANGED <<allCached, name, nickMu>>

TryAddCapped(a) ==
  /\ pending[a] # Nil
  /\ nickMu = Nil
  /\ IF AtCap(pending[a]) THEN Reject(pending[a]) ELSE Insert(pending[a])
  /\ UNCHANGED seq

\* Mutant: the handshake forgets to release nickMu.
MutEnsureUniqueName(a) ==
  /\ nickMu = a
  /\ LET s == pending[a]
     IN name' = IF sessions[IdOf(s)] = s
                THEN [name EXCEPT ![IdOf(s)] = UniqueName(s.nick, Taken(s))]
                ELSE name
  /\ pending' = [pending EXCEPT ![a] = Nil]
  /\ UNCHANGED <<seq, nickMu, sessions, byAddr, allCached>>

\* A session that was removed meanwhile is renamed too, and nobody can see it.
EnsureUniqueName(a) ==
  /\ nickMu = a
  /\ LET s == pending[a]
     IN name' = IF sessions[IdOf(s)] = s
                THEN [name EXCEPT ![IdOf(s)] = UniqueName(s.nick, Taken(s))]
                ELSE name
  /\ nickMu' = Nil
  /\ pending' = [pending EXCEPT ![a] = Nil]
  /\ UNCHANGED <<seq, sessions, byAddr, allCached>>

\* Disconnect, stale timeout and kick all end here; an absent id is a no-op.
RemoveSession(i) ==
  /\ sessions[i] # Nil
  /\ sessions' = Without(sessions, {i})
  /\ byAddr' = Without(byAddr, {sessions[i].addr})
  /\ allCached' = Entries(sessions')
  /\ UNCHANGED <<seq, pending, nickMu, name>>

Next ==
  \/ \E a \in Addr, acc \in Account, nick \in Name : NewSession(a, acc, nick)
  \/ \E a \in Addr : TryAddCapped(a) \/ EnsureUniqueName(a)
  \/ \E i \in Id : RemoveSession(i)

Spec == Init /\ [][Next]_vars
-----------------------------------------------------------------------------
(***************************************************************************)
(* Properties.                                                             *)
(***************************************************************************)

\* The types of the registry's maps and of the handshakes in progress: a worker
\* adds a session of its own endpoint, and holds nickMu only while it does so.
TypeOK ==
  /\ seq \in Nat
  /\ pending \in [Addr -> Session \cup {Nil}]
  /\ nickMu \in Addr \cup {Nil}
  /\ sessions \in [Id -> Session \cup {Nil}]
  /\ byAddr \in [Addr -> Session \cup {Nil}]
  /\ allCached \subseteq Session
  /\ name \in [Id -> Name]
  /\ \A a \in Addr : pending[a] # Nil => pending[a].addr = a
  /\ nickMu # Nil => pending[nickMu] # Nil

\* Every live session is found under its own id and under its own endpoint.
IndexComplete ==
  \A i \in Ids(sessions) :
    /\ IdOf(sessions[i]) = i
    /\ byAddr[sessions[i].addr] = sessions[i]

\* An endpoint never leads to a session that is not live: after the two
\* evictions of TryAddCapped, a same-id replacement or a removal, byAddr holds
\* no dangling pointer through which a packet could still reach an old session.
IndexSound ==
  \A a \in Addr :
    byAddr[a] # Nil => /\ byAddr[a].addr = a
                       /\ sessions[IdOf(byAddr[a])] = byAddr[a]

\* One account has at most one live session, from whatever endpoints its
\* handshakes race ("one account may hold exactly one live session").
OnePerAccount ==
  \A i, j \in Ids(sessions) : sessions[i].account = sessions[j].account => i = j

\* GetAll (ticks, broadcasts, GetByName) sees exactly the live sessions,
\* although the rejecting path of TryAddCapped does not rebuild the cache.
CacheExact == allCached = Live

\* The three indexes of SessionManager describe one set of sessions, with one
\* session per account.
Consistent == IndexComplete /\ IndexSound /\ OnePerAccount /\ CacheExact

\* The player cap holds at every instant, across racing handshakes.
CapRespected == MaxPlayers > 0 => Cardinality(Ids(sessions)) <= MaxPlayers

\* Names are unique among the sessions whose handshake has finished naming;
\* only the session being named under nickMu may still duplicate one.
BeingNamed(i) == nickMu # Nil /\ sessions[i] = pending[nickMu]

UniqueNames ==
  \A i, j \in Ids(sessions) :
    i # j /\ ~BeingNamed(i) /\ ~BeingNamed(j) => name[i] # name[j]

\* A handshake that is refused because the server is full has thrown nobody
\* out: TryAddCapped evicts before it looks at the cap, yet a refusal leaves
\* the registry as it was.
RefusalEvictsNobody ==
  [][\A a \in Addr :
       pending[a] # Nil /\ pending'[a] = Nil /\ nickMu = Nil
         => UNCHANGED <<sessions, byAddr>>]_vars

(***************************************************************************)
(* The registry implements the abstract table of live sessions.            *)
(***************************************************************************)
Table == INSTANCE SessionTable WITH live <- Live
TableSpec == Table!Spec
=============================================================================
