------------------------ MODULE SessionManagerProofs ------------------------
(***************************************************************************)
(* Proofs about the session registry, for any number of endpoints,         *)
(* accounts, ids and handshakes and for any cap.                           *)
(***************************************************************************)
EXTENDS SessionManager, FiniteSetTheorems, TLAPS

Index == IndexComplete /\ IndexSound /\ OnePerAccount /\ CacheExact

Inv == TypeOK /\ Index /\ CapRespected

USE MaxPlayersAssumption, IdSpaceAssumption, NilAssumption

\* The id of a session, in the width of the counter, is an id of the table.
LEMMA IdOfType == \A s \in Session : IdOf(s) \in Id
  BY DEF IdOf, Id, Session

\* The ids of a table are finitely many.
LEMMA IdsFinite ==
  ASSUME NEW tab
  PROVE  IsFiniteSet(Ids(tab)) /\ Cardinality(Ids(tab)) \in Nat
<1>1. IsFiniteSet(Id)
  BY FS_Interval DEF Id
<1>2. Ids(tab) \subseteq Id
  BY DEF Ids
<1> QED
  BY <1>1, <1>2, FS_Subset, FS_CardinalityType

\* Deleting keys keeps a table well typed.
LEMMA WithoutType ==
  ASSUME NEW D, NEW tab \in [D -> Session \cup {Nil}], NEW K
  PROVE  Without(tab, K) \in [D -> Session \cup {Nil}]
  BY DEF Without

-----------------------------------------------------------------------------
(***************************************************************************)
(* What TryAddCapped computes, from well-typed consistent indexes.         *)
(***************************************************************************)
\* The tables computed on the way to an insertion are well typed.
LEMMA TryAddTypes ==
  ASSUME TypeOK, NEW s \in Session
  PROVE  /\ AfterAddr(s) \in [Id -> Session \cup {Nil}]
         /\ AfterAccount(s) \in [Id -> Session \cup {Nil}]
         /\ ByAddrAfterAccount(s) \in [Addr -> Session \cup {Nil}]
         /\ SessionsInserted(s) \in [Id -> Session \cup {Nil}]
         /\ ByAddrInserted(s) \in [Addr -> Session \cup {Nil}]
<1>1. AfterAddr(s) \in [Id -> Session \cup {Nil}]
  BY WithoutType DEF TypeOK, AfterAddr
<1>2. AfterAccount(s) \in [Id -> Session \cup {Nil}]
  BY <1>1, WithoutType DEF AfterAccount
<1>3. ByAddrAfterAccount(s) \in [Addr -> Session \cup {Nil}]
  BY WithoutType DEF TypeOK, ByAddrAfterAccount
<1>4. SessionsInserted(s) \in [Id -> Session \cup {Nil}]
  BY <1>2, IdOfType DEF SessionsInserted
<1>5. ByAddrInserted(s) \in [Addr -> Session \cup {Nil}]
  <2> DEFINE old == AfterAccount(s)[IdOf(s)]
             stale == IF old = Nil THEN {} ELSE {old.addr}
  <2>1. Without(ByAddrAfterAccount(s), stale) \in [Addr -> Session \cup {Nil}]
    BY <1>3, WithoutType
  <2> QED
    BY <2>1 DEF ByAddrInserted, Session
<1> QED
  BY <1>1, <1>2, <1>3, <1>4, <1>5

\* The sessions kept by TryAddCapped are those that conflict with s in neither
\* endpoint nor account; only the entry with the id of s may still conflict.
LEMMA AfterAccountIs ==
  ASSUME TypeOK, Index, NEW s \in Session, NEW i \in Id
  PROVE  AfterAccount(s)[i] =
           IF /\ i # IdOf(s)
              /\ sessions[i] # Nil
              /\ sessions[i].addr = s.addr \/ sessions[i].account = s.account
           THEN Nil
           ELSE sessions[i]
<1>1. DOMAIN sessions = Id /\ DOMAIN AfterAddr(s) = Id
  BY TryAddTypes DEF TypeOK
<1>2. AfterAddr(s)[i] = IF i \in SameAddr(s) THEN Nil ELSE sessions[i]
  BY <1>1 DEF AfterAddr, Without
<1>3. AfterAccount(s)[i] = IF i \in SameAccount(s) THEN Nil ELSE AfterAddr(s)[i]
  BY <1>1 DEF AfterAccount, Without
<1>4. sessions[i] # Nil /\ i # IdOf(s) =>
        (i \in SameAddr(s) <=> sessions[i].addr = s.addr)
  BY DEF SameAddr, Ids, Index, IndexComplete, Session, TypeOK
<1>5. i \in SameAddr(s) => sessions[i] # Nil /\ i # IdOf(s)
  BY DEF SameAddr, Ids
<1>6. i \in SameAccount(s) <=>
        AfterAddr(s)[i] # Nil /\ i # IdOf(s) /\ sessions[i].account = s.account
  BY DEF SameAccount, Ids
<1> QED
  BY <1>2, <1>3, <1>4, <1>5, <1>6

\* The same, for the ids that the second loop of TryAddCapped evicts.
LEMMA SameAccountIs ==
  ASSUME TypeOK, Index, NEW s \in Session, NEW i \in Id
  PROVE  i \in SameAccount(s) <=>
           /\ i # IdOf(s)
           /\ sessions[i] # Nil
           /\ sessions[i].addr # s.addr
           /\ sessions[i].account = s.account
<1>1. AfterAddr(s)[i] = IF i \in SameAddr(s) THEN Nil ELSE sessions[i]
  BY DEF AfterAddr, Without, TypeOK
<1>2. sessions[i] # Nil /\ i # IdOf(s) =>
        (i \in SameAddr(s) <=> sessions[i].addr = s.addr)
  BY DEF SameAddr, Ids, Index, IndexComplete, Session, TypeOK
<1>3. i \in SameAccount(s) <=>
        AfterAddr(s)[i] # Nil /\ i # IdOf(s) /\ sessions[i].account = s.account
  BY DEF SameAccount, Ids
<1> QED
  BY <1>1, <1>2, <1>3

\* The table after an insertion.
LEMMA InsertedIs ==
  ASSUME TypeOK, Index, NEW s \in Session, NEW i \in Id
  PROVE  SessionsInserted(s)[i] =
           IF i = IdOf(s)
           THEN s
           ELSE IF /\ sessions[i] # Nil
                   /\ sessions[i].addr = s.addr \/ sessions[i].account = s.account
                THEN Nil
                ELSE sessions[i]
<1>1. AfterAccount(s) \in [Id -> Session \cup {Nil}]
  BY TryAddTypes
<1> QED
  BY <1>1, AfterAccountIs DEF SessionsInserted

\* The index by endpoint after an insertion.
LEMMA ByAddrInsertedIs ==
  ASSUME TypeOK, Index, NEW s \in Session, NEW a \in Addr
  PROVE  ByAddrInserted(s)[a] =
           IF a = s.addr
           THEN s
           ELSE IF \/ \E i \in SameAccount(s) : sessions[i].addr = a
                   \/ sessions[IdOf(s)] # Nil /\ sessions[IdOf(s)].addr = a
                THEN Nil
                ELSE byAddr[a]
<1> DEFINE old == AfterAccount(s)[IdOf(s)]
           stale == IF old = Nil THEN {} ELSE {old.addr}
           W == Without(ByAddrAfterAccount(s), stale)
<1>1. old = sessions[IdOf(s)]
  BY AfterAccountIs, IdOfType
<1>2. ByAddrAfterAccount(s) \in [Addr -> Session \cup {Nil}]
  BY TryAddTypes
<1>3. W \in [Addr -> Session \cup {Nil}]
  BY <1>2, WithoutType
<1>4. ByAddrAfterAccount(s)[a] =
        IF \E i \in SameAccount(s) : sessions[i].addr = a THEN Nil ELSE byAddr[a]
  BY DEF ByAddrAfterAccount, Without, TypeOK
<1>5. W[a] = IF a \in stale THEN Nil ELSE ByAddrAfterAccount(s)[a]
  BY <1>2 DEF Without
<1>6. a \in stale <=> sessions[IdOf(s)] # Nil /\ sessions[IdOf(s)].addr = a
  BY <1>1
<1>7. ByAddrInserted(s) = [W EXCEPT ![s.addr] = s]
  BY DEF ByAddrInserted
<1> HIDE DEF W, stale
<1> QED
  BY <1>3, <1>4, <1>5, <1>6, <1>7

-----------------------------------------------------------------------------
(***************************************************************************)
(* The two outcomes of TryAddCapped.                                       *)
(***************************************************************************)
\* A refusal has evicted nobody: the cap held before, so a table that is still
\* full after the evictions has lost no entry.
LEMMA RefusalKeeps ==
  ASSUME Inv, NEW s \in Session, AtCap(s)
  PROVE  AfterAccount(s) = sessions /\ ByAddrAfterAccount(s) = byAddr
<1> USE DEF Inv
<1>1. Ids(AfterAccount(s)) \subseteq Ids(sessions)
  BY AfterAccountIs DEF Ids
<1>2. Cardinality(Ids(AfterAccount(s))) = Cardinality(Ids(sessions))
  <2>1. Cardinality(Ids(AfterAccount(s))) <= Cardinality(Ids(sessions))
    BY <1>1, IdsFinite, FS_Subset
  <2> QED
    BY <2>1, IdsFinite DEF AtCap, CapRespected
<1>3. Ids(AfterAccount(s)) = Ids(sessions)
  BY <1>1, <1>2, IdsFinite, FS_Subset
<1>4. \A i \in Id : AfterAccount(s)[i] = sessions[i]
  BY <1>3, AfterAccountIs DEF Ids
<1>5. AfterAccount(s) = sessions
  BY <1>4, TryAddTypes DEF TypeOK
<1>6. SameAccount(s) \subseteq Id
  BY DEF SameAccount, Ids
<1>7. SameAccount(s) = {}
  BY <1>4, <1>6, AfterAccountIs, SameAccountIs
<1>8. ByAddrAfterAccount(s) = byAddr
  BY <1>7 DEF ByAddrAfterAccount, Without, TypeOK
<1> QED
  BY <1>5, <1>8

\* An insertion keeps the cap: it either replaces an entry or had room.
LEMMA InsertedCap ==
  ASSUME Inv, NEW s \in Session, ~AtCap(s), MaxPlayers > 0
  PROVE  Cardinality(Ids(SessionsInserted(s))) <= MaxPlayers
<1> USE DEF Inv
<1> DEFINE A == Ids(AfterAccount(s))
           B == Ids(SessionsInserted(s))
<1>1. IsFiniteSet(A) /\ IsFiniteSet(B) /\ Cardinality(A) \in Nat /\ Cardinality(B) \in Nat
  BY IdsFinite
<1>2. B \subseteq A \cup {IdOf(s)}
  BY TryAddTypes DEF SessionsInserted, Ids
<1>3. CASE AfterAccount(s)[IdOf(s)] = Nil
  <2>1. Cardinality(A) < MaxPlayers
    BY <1>1, <1>3 DEF AtCap
  <2>2. /\ IsFiniteSet(A \cup {IdOf(s)})
        /\ Cardinality(A \cup {IdOf(s)}) <= Cardinality(A) + 1
    <3> HIDE DEF A, Inv
    <3>1. IsFiniteSet(A)
      BY <1>1
    <3>2. /\ IsFiniteSet(A \cup {IdOf(s)})
          /\ Cardinality(A \cup {IdOf(s)}) =
               IF IdOf(s) \in A THEN Cardinality(A) ELSE Cardinality(A) + 1
      BY ONLY <3>1, FS_AddElement, Zenon
    <3> QED
      BY <1>1, <3>2
  <2>3. Cardinality(B) <= Cardinality(A \cup {IdOf(s)})
    BY <1>2, <2>2, FS_Subset
  <2>4. Cardinality(A \cup {IdOf(s)}) \in Nat
    BY <2>2, FS_CardinalityType
  <2> QED
    BY <1>1, <2>1, <2>2, <2>3, <2>4
<1>4. CASE AfterAccount(s)[IdOf(s)] # Nil
  <2>1. IdOf(s) \in A
    BY <1>4, IdOfType DEF Ids
  <2>2. A \subseteq Ids(sessions)
    BY AfterAccountIs DEF Ids
  <2>3. Cardinality(B) <= Cardinality(Ids(sessions))
    BY <1>2, <2>1, <2>2, IdsFinite, FS_Subset
  <2> QED
    BY <1>1, <2>3, IdsFinite DEF CapRespected
<1> QED
  BY <1>3, <1>4

-----------------------------------------------------------------------------
(***************************************************************************)
(* The inductive invariant: one lemma per action.                          *)
(***************************************************************************)
LEMMA InvInit == Init => Inv
<1> SUFFICES ASSUME Init PROVE Inv
  OBVIOUS
<1>1. Ids(sessions) = {}
  BY DEF Init, Ids
<1>2. TypeOK
  BY DEF Init, TypeOK
<1>3. Index
  BY <1>1 DEF Init, Index, IndexComplete, IndexSound, OnePerAccount, CacheExact,
              Live, Entries
<1>4. CapRespected
  BY <1>1, FS_EmptySet DEF CapRespected
<1> QED
  BY <1>2, <1>3, <1>4 DEF Inv

\* Allocating the next id keeps the invariant.
LEMMA InvNewSession ==
  ASSUME Inv, NEW a \in Addr, NEW acc \in Account, NEW nick \in Name,
         NewSession(a, acc, nick)
  PROVE  Inv'
<1> USE DEF Inv, NewSession
<1>1. TypeOK'
  BY DEF TypeOK, Session
<1>2. Index'
  BY DEF Index, IndexComplete, IndexSound, OnePerAccount, CacheExact, Live,
         Entries, Ids
<1>3. CapRespected'
  BY DEF CapRespected, Ids
<1> QED
  BY <1>1, <1>2, <1>3

\* An accepted handshake, with its evictions, keeps the invariant.
LEMMA InvInsert ==
  ASSUME Inv, NEW s \in Session, NEW a \in Addr, s = pending[a],
         ~AtCap(s), Insert(s), UNCHANGED seq
  PROVE  Inv'
<1> USE DEF Inv
<1>1. TypeOK'
  <2>1. s.addr = a
    BY DEF TypeOK
  <2>2. /\ sessions' \in [Id -> Session \cup {Nil}]
        /\ byAddr' \in [Addr -> Session \cup {Nil}]
    BY TryAddTypes DEF Insert
  <2>3. allCached' \subseteq Session
    BY <2>2 DEF Insert, Entries, Ids
  <2>4. name' \in [Id -> Name]
    BY IdOfType DEF Insert, TypeOK, Session
  <2> QED
    BY <2>1, <2>2, <2>3, <2>4 DEF TypeOK, Insert
<1>2. \A i \in Id : sessions'[i] = SessionsInserted(s)[i]
  BY DEF Insert
<1>3. \A b \in Addr : byAddr'[b] = ByAddrInserted(s)[b]
  BY DEF Insert
<1>4. \A i \in Id : sessions[i] # Nil =>
        /\ sessions[i] \in Session
        /\ sessions[i].addr \in Addr
        /\ IdOf(sessions[i]) = i
        /\ byAddr[sessions[i].addr] = sessions[i]
  BY DEF TypeOK, Session, Index, IndexComplete, Ids
<1>5. IndexComplete'
  <2> SUFFICES ASSUME NEW i \in Id, sessions'[i] # Nil
               PROVE  /\ IdOf(sessions'[i]) = i
                      /\ byAddr'[sessions'[i].addr] = sessions'[i]
    BY DEF IndexComplete, Ids, IdOf
  <2>1. CASE i = IdOf(s)
    BY <1>2, <1>3, <2>1, InsertedIs, ByAddrInsertedIs DEF Session
  <2>2. CASE i # IdOf(s)
    <3>1. /\ sessions'[i] = sessions[i]
          /\ sessions[i].addr # s.addr
          /\ sessions[i].account # s.account
      BY <1>2, <2>2, InsertedIs
    <3>2. ASSUME NEW j \in SameAccount(s) PROVE sessions[j].addr # sessions[i].addr
      <4>1. j \in Id
        BY DEF SameAccount, Ids
      <4>2. sessions[j] # Nil /\ sessions[j].account = s.account
        BY <4>1, SameAccountIs
      <4> QED
        BY <1>4, <3>1, <4>1, <4>2
    <3>3. sessions[IdOf(s)] # Nil => sessions[IdOf(s)].addr # sessions[i].addr
      BY <1>4, <2>2, <3>1, IdOfType
    <3> QED
      BY <1>3, <1>4, <3>1, <3>2, <3>3, ByAddrInsertedIs
  <2> QED
    BY <2>1, <2>2
<1>6. IndexSound'
  <2> SUFFICES ASSUME NEW b \in Addr, byAddr'[b] # Nil
               PROVE  /\ byAddr'[b].addr = b
                      /\ sessions'[IdOf(byAddr'[b])] = byAddr'[b]
    BY DEF IndexSound, IdOf
  <2>1. CASE b = s.addr
    BY <1>2, <1>3, <2>1, IdOfType, InsertedIs, ByAddrInsertedIs
  <2>2. CASE b # s.addr
    <3>1. /\ byAddr'[b] = byAddr[b]
          /\ \A i \in SameAccount(s) : sessions[i].addr # b
          /\ sessions[IdOf(s)] # Nil => sessions[IdOf(s)].addr # b
      BY <1>3, <2>2, ByAddrInsertedIs
    <3>2. byAddr[b] \in Session /\ byAddr[b].addr = b
      BY <3>1 DEF Index, IndexSound, TypeOK
    <3>3. PICK i \in Id : i = IdOf(byAddr[b])
      BY <3>2, IdOfType
    <3>4. sessions[i] = byAddr[b]
      BY <3>1, <3>3 DEF Index, IndexSound
    <3>5. i # IdOf(s)
      BY <3>1, <3>2, <3>4
    <3>6. sessions[i].account # s.account
      BY <2>2, <3>1, <3>2, <3>4, <3>5, SameAccountIs
    <3>7. sessions'[i] = sessions[i]
      BY <1>2, <2>2, <3>2, <3>4, <3>5, <3>6, InsertedIs
    <3> QED
      BY <3>1, <3>2, <3>3, <3>4, <3>7
  <2> QED
    BY <2>1, <2>2
<1>7. OnePerAccount'
  <2> SUFFICES ASSUME NEW i \in Id, NEW j \in Id,
                      sessions'[i] # Nil, sessions'[j] # Nil,
                      sessions'[i].account = sessions'[j].account
               PROVE  i = j
    BY DEF OnePerAccount, Ids
  <2> QED
    BY <1>2, InsertedIs DEF Index, OnePerAccount, Ids
<1>8. CacheExact'
  BY DEF CacheExact, Live, Insert
<1>9. CapRespected'
  BY InsertedCap DEF CapRespected, Insert
<1> QED
  BY <1>1, <1>5, <1>6, <1>7, <1>8, <1>9 DEF Index

\* A refused handshake, with the evictions it has already made, keeps it.
LEMMA InvReject ==
  ASSUME Inv, NEW s \in Session, NEW a \in Addr, s = pending[a], nickMu = Nil,
         AtCap(s), Reject(s), UNCHANGED seq
  PROVE  Inv'
<1> USE DEF Inv
<1>1. UNCHANGED <<seq, nickMu, sessions, byAddr, allCached, name>>
  BY RefusalKeeps DEF Reject
<1>2. TypeOK'
  BY <1>1 DEF Reject, TypeOK, Session
<1>3. Index'
  BY <1>1 DEF Index, IndexComplete, IndexSound, OnePerAccount, CacheExact, Live,
              Entries, Ids
<1>4. CapRespected'
  BY <1>1 DEF CapRespected, Ids
<1> QED
  BY <1>2, <1>3, <1>4

\* TryAddCapped is one of the two.
LEMMA InvTryAddCapped ==
  ASSUME Inv, NEW a \in Addr, TryAddCapped(a)
  PROVE  Inv'
<1>1. pending[a] \in Session
  BY DEF Inv, TypeOK, TryAddCapped
<1> QED
  BY <1>1, InvInsert, InvReject DEF TryAddCapped

\* A step that renames the session being added keeps the invariant.
LEMMA InvEnsureUniqueName ==
  ASSUME Inv, NEW a \in Addr, EnsureUniqueName(a), name' \in [Id -> Name]
  PROVE  Inv'
<1> USE DEF Inv, EnsureUniqueName
<1>1. TypeOK'
  BY DEF TypeOK
<1>2. Index'
  BY DEF Index, IndexComplete, IndexSound, OnePerAccount, CacheExact, Live,
         Entries, Ids
<1>3. CapRespected'
  BY DEF CapRespected, Ids
<1> QED
  BY <1>1, <1>2, <1>3

\* Removing a session keeps the invariant.
LEMMA InvRemoveSession ==
  ASSUME Inv, NEW i \in Id, RemoveSession(i)
  PROVE  Inv'
<1> USE DEF Inv, RemoveSession
<1>1. \A j \in Id : sessions'[j] = IF j = i THEN Nil ELSE sessions[j]
  BY DEF Without, TypeOK
<1>2. \A b \in Addr : byAddr'[b] = IF b = sessions[i].addr THEN Nil ELSE byAddr[b]
  BY DEF Without, TypeOK
<1>3. /\ sessions' \in [Id -> Session \cup {Nil}]
      /\ byAddr' \in [Addr -> Session \cup {Nil}]
  BY WithoutType DEF TypeOK
<1>4. allCached' \subseteq Session
  BY <1>3 DEF Entries, Ids
<1>5. TypeOK'
  BY <1>3, <1>4 DEF TypeOK
<1>6. sessions[i] \in Session /\ IdOf(sessions[i]) = i
        /\ byAddr[sessions[i].addr] = sessions[i] /\ sessions[i].addr \in Addr
  BY DEF TypeOK, Index, IndexComplete, Ids, Session
<1>7. IndexComplete'
  <2> SUFFICES ASSUME NEW j \in Id, sessions'[j] # Nil
               PROVE  /\ IdOf(sessions'[j]) = j
                      /\ byAddr'[sessions'[j].addr] = sessions'[j]
    BY DEF IndexComplete, Ids, IdOf
  <2>1. sessions'[j] = sessions[j] /\ j # i
    BY <1>1
  <2>2. sessions[j] \in Session /\ sessions[j].addr \in Addr
        /\ IdOf(sessions[j]) = j /\ byAddr[sessions[j].addr] = sessions[j]
    BY <2>1 DEF TypeOK, Session, Index, IndexComplete, Ids
  <2> QED
    BY <1>2, <1>6, <2>1, <2>2
<1>8. IndexSound'
  <2> SUFFICES ASSUME NEW b \in Addr, byAddr'[b] # Nil
               PROVE  /\ byAddr'[b].addr = b
                      /\ sessions'[IdOf(byAddr'[b])] = byAddr'[b]
    BY DEF IndexSound, IdOf
  <2>1. byAddr'[b] = byAddr[b] /\ b # sessions[i].addr
    BY <1>2
  <2>2. byAddr[b] \in Session /\ byAddr[b].addr = b
        /\ sessions[IdOf(byAddr[b])] = byAddr[b]
    BY <2>1 DEF Index, IndexSound, TypeOK
  <2>3. IdOf(byAddr[b]) \in Id /\ IdOf(byAddr[b]) # i
    BY <2>1, <2>2, IdOfType
  <2> QED
    BY <1>1, <2>1, <2>2, <2>3
<1>9. OnePerAccount'
  <2> SUFFICES ASSUME NEW j \in Id, NEW k \in Id,
                      sessions'[j] # Nil, sessions'[k] # Nil,
                      sessions'[j].account = sessions'[k].account
               PROVE  j = k
    BY DEF OnePerAccount, Ids
  <2>1. j # i /\ k # i /\ sessions'[j] = sessions[j] /\ sessions'[k] = sessions[k]
    BY <1>1
  <2> HIDE DEF RemoveSession
  <2> QED
    BY <2>1 DEF Index, OnePerAccount, Ids
<1>10. CacheExact'
  BY DEF CacheExact, Live
<1>11. CapRespected'
  <2>1. Ids(sessions') \subseteq Ids(sessions)
    BY <1>1 DEF Ids
  <2>2. Cardinality(Ids(sessions')) <= Cardinality(Ids(sessions))
    BY <2>1, IdsFinite, FS_Subset
  <2> QED
    BY <2>2, IdsFinite DEF CapRespected
<1> QED
  BY <1>5, <1>7, <1>8, <1>9, <1>10, <1>11 DEF Index

-----------------------------------------------------------------------------
(***************************************************************************)
(* EnsureUniqueName ends with a free name: fewer names are taken than      *)
(* there are suffixes to try.                                              *)
(***************************************************************************)
\* A nonempty set of naturals has a least element.
LEMMA LeastNatural ==
  ASSUME NEW S \in SUBSET Nat, S # {}
  PROVE  \E n \in S : \A m \in S : n <= m
<1>1. PICK n \in S : \A m \in S : ~ (<<m, n>> \in OpToRel(<, Nat))
  BY NatLessThanWellFounded, WFMin
<1>2. \A m \in S : ~ (m < n)
  BY <1>1 DEF OpToRel
<1> QED
  BY <1>2

\* With the registry at its cap, one of the suffixes tried is free: EnsureUniqueName always ends with a name nobody has.
LEMMA FreeSuffixExists ==
  ASSUME TypeOK, NEW s \in Session, NEW base \in Name, sessions[IdOf(s)] = s
  PROVE  FreeSuffixes(base, Taken(s)) # {}
<1> DEFINE J == {j \in Ids(sessions) : sessions[j] # s}
           f == [j \in J |-> name[j]]
           N == 2 .. IdSpace + 1
           g == [n \in N |-> Suffixed(base, n)]
<1>1. /\ IsFiniteSet(J)
      /\ Cardinality(J) \in Nat
      /\ Cardinality(J) < IdSpace
  <2>1. IsFiniteSet(Id) /\ Cardinality(Id) = IdSpace
    BY FS_Interval DEF Id
  <2>2. J \subseteq Id /\ IdOf(s) \in Id /\ IdOf(s) \notin J
    BY IdOfType DEF Ids
  <2>3. IsFiniteSet(J) /\ Cardinality(J) <= Cardinality(Id) /\ Cardinality(J) # Cardinality(Id)
    BY <2>1, <2>2, FS_Subset
  <2>4. Cardinality(J) \in Nat
    BY <2>3, FS_CardinalityType
  <2> QED
    BY <2>1, <2>3, <2>4
<1>2. f \in Surjection(J, Taken(s))
  BY DEF Taken, Surjection
<1>3. /\ IsFiniteSet(Taken(s))
      /\ Cardinality(Taken(s)) \in Nat
      /\ Cardinality(Taken(s)) < IdSpace
  <2>1. IsFiniteSet(Taken(s)) /\ Cardinality(Taken(s)) <= Cardinality(J)
    BY <1>1, <1>2, FS_Surjection
  <2>2. Cardinality(Taken(s)) \in Nat
    BY <2>1, FS_CardinalityType
  <2> QED
    BY <1>1, <2>1, <2>2
<1>4. IsFiniteSet(N) /\ Cardinality(N) = IdSpace
  BY FS_Interval
<1> SUFFICES ASSUME FreeSuffixes(base, Taken(s)) = {} PROVE FALSE
  OBVIOUS
<1>5. g \in [N -> Taken(s)]
  BY DEF FreeSuffixes
<1>6. \E m, n \in N : m # n /\ g[m] = g[n]
  <2> HIDE DEF N, g
  <2> QED
    BY <1>3, <1>4, <1>5, FS_PigeonHole
<1> QED
  BY <1>6, SuffixAssumption

\* The name the server settles on belongs to no other live session.
LEMMA UniqueNameIs ==
  ASSUME TypeOK, NEW s \in Session, NEW base \in Name, sessions[IdOf(s)] = s
  PROVE  /\ UniqueName(base, Taken(s)) \in Name
         /\ UniqueName(base, Taken(s)) \notin Taken(s)
<1> DEFINE F == FreeSuffixes(base, Taken(s))
           n == CHOOSE m \in F : \A k \in F : m <= k
<1>1. F \in SUBSET Nat /\ F # {}
  BY FreeSuffixExists DEF FreeSuffixes
<1>2. \E m \in F : \A k \in F : m <= k
  BY <1>1, LeastNatural
<1>3. n \in F
  BY <1>2
<1>4. Suffixed(base, n) \in Name /\ Suffixed(base, n) \notin Taken(s)
  BY <1>3, SuffixAssumption DEF FreeSuffixes
<1> QED
  BY <1>4 DEF UniqueName

\* EnsureUniqueName gives a name, hence keeps the invariant.
LEMMA InvNamed ==
  ASSUME Inv, NEW a \in Addr, EnsureUniqueName(a)
  PROVE  Inv'
<1>1. pending[a] \in Session /\ pending[a].nick \in Name
  BY DEF Inv, TypeOK, EnsureUniqueName, Session
<1>2. name' \in [Id -> Name]
  BY <1>1, IdOfType, UniqueNameIs DEF Inv, TypeOK, EnsureUniqueName
<1> QED
  BY <1>2, InvEnsureUniqueName

\* Every step keeps the invariant.
LEMMA InvNext == Inv /\ [Next]_vars => Inv'
<1> SUFFICES ASSUME Inv, [Next]_vars PROVE Inv'
  OBVIOUS
<1>1. CASE UNCHANGED vars
  BY <1>1 DEF Inv, TypeOK, Index, IndexComplete, IndexSound, OnePerAccount,
              CacheExact, CapRespected, Live, Entries, Ids, vars
<1>2. CASE Next
  BY <1>2, InvNewSession, InvTryAddCapped, InvNamed, InvRemoveSession DEF Next
<1> QED
  BY <1>1, <1>2

-----------------------------------------------------------------------------
(***************************************************************************)
(* Theorems.                                                               *)
(***************************************************************************)
LEMMA Invariance == Spec => []Inv
  BY InvInit, InvNext, PTL DEF Spec

\* The registry's maps keep their types, and a worker that holds nickMu is in
\* the middle of its own handshake (TryAddCapped, EnsureUniqueName).
THEOREM Typing == Spec => []TypeOK
<1>1. Inv => TypeOK
  BY DEF Inv
<1> QED
  BY <1>1, Invariance, PTL

\* The two maps and the cache of SessionManager describe the same sessions, and
\* no account has two of them, after any sequence of TryAddCapped (evicting or
\* refused), EnsureUniqueName and RemoveSession.
THEOREM Consistency ==
  Spec => []Consistent
<1>1. Inv => Consistent
  BY DEF Inv, Index, Consistent
<1> QED
  BY <1>1, Invariance, PTL

\* TryAddCapped never lets the number of live sessions pass the cap.
THEOREM Cap == Spec => []CapRespected
<1>1. Inv => CapRespected
  BY DEF Inv
<1> QED
  BY <1>1, Invariance, PTL

\* A handshake answered "server full" has removed nobody from the registry.
THEOREM Refusal == Spec => RefusalEvictsNobody
<1> DEFINE Keeps == \A a \in Addr :
             pending[a] # Nil /\ pending'[a] = Nil /\ nickMu = Nil
               => UNCHANGED <<sessions, byAddr>>
<1>1. Inv /\ [Next]_vars => [Keeps]_vars
  <2> SUFFICES ASSUME Inv, Next, NEW a \in Addr,
                      pending[a] # Nil, pending'[a] = Nil, nickMu = Nil
               PROVE  UNCHANGED <<sessions, byAddr>>
    OBVIOUS
  <2>1. ASSUME NEW b \in Addr, NEW acc \in Account, NEW nick \in Name,
               NewSession(b, acc, nick)
        PROVE  UNCHANGED <<sessions, byAddr>>
    BY <2>1 DEF NewSession
  <2>2. ASSUME NEW b \in Addr, TryAddCapped(b)
        PROVE  UNCHANGED <<sessions, byAddr>>
    <3>1. pending[b] \in Session
      BY <2>2 DEF Inv, TypeOK, TryAddCapped
    <3>2. CASE AtCap(pending[b])
      BY <2>2, <3>1, <3>2, RefusalKeeps DEF TryAddCapped, Reject
    <3>3. CASE ~AtCap(pending[b])
      BY <2>2, <3>3 DEF TryAddCapped, Insert
    <3> QED
      BY <3>2, <3>3
  <2>3. ASSUME NEW b \in Addr, EnsureUniqueName(b)
        PROVE  UNCHANGED <<sessions, byAddr>>
    BY <2>3 DEF EnsureUniqueName
  <2>4. ASSUME NEW i \in Id, RemoveSession(i)
        PROVE  UNCHANGED <<sessions, byAddr>>
    BY <2>4 DEF RemoveSession
  <2> QED
    BY <2>1, <2>2, <2>3, <2>4 DEF Next
<1> QED
  BY <1>1, Invariance, PTL DEF Spec, RefusalEvictsNobody

-----------------------------------------------------------------------------
(***************************************************************************)
(* Unique names.  Inductive together with Inv: a name is only duplicated   *)
(* by the session that holds nickMu, and it gets a free one.               *)
(***************************************************************************)
LEMMA UniqueNamesInit == Init => UniqueNames
  BY DEF Init, UniqueNames, Ids

\* Two live sessions are different records.
LEMMA EntriesDiffer ==
  ASSUME Inv, NEW s, NEW i \in Id, sessions[i] # Nil, sessions[i] = s
  PROVE  i = IdOf(s)
  BY DEF Inv, Index, IndexComplete, Ids

\* Every step keeps the names distinct.
LEMMA UniqueNamesNext == Inv /\ Inv' /\ UniqueNames /\ [Next]_vars => UniqueNames'
<1> SUFFICES ASSUME Inv, Inv', UniqueNames, [Next]_vars,
                    NEW i \in Id, NEW j \in Id, i # j,
                    sessions'[i] # Nil, sessions'[j] # Nil,
                    ~BeingNamed(i)', ~BeingNamed(j)'
             PROVE  name'[i] # name'[j]
  BY DEF UniqueNames, Ids
<1>1. ASSUME sessions[i] # Nil, sessions[j] # Nil, ~BeingNamed(i), ~BeingNamed(j)
      PROVE  name[i] # name[j]
  BY <1>1 DEF UniqueNames, Ids
<1>2. CASE UNCHANGED vars
  BY <1>1, <1>2 DEF vars, BeingNamed
<1>3. ASSUME NEW a \in Addr, NEW acc \in Account, NEW nick \in Name,
             NewSession(a, acc, nick)
      PROVE  name'[i] # name'[j]
  <2>1. nickMu # Nil => pending'[nickMu] = pending[nickMu]
    BY <1>3 DEF NewSession, Inv, TypeOK
  <2> QED
    BY <1>1, <1>3, <2>1 DEF NewSession, BeingNamed
<1>4. ASSUME NEW a \in Addr, TryAddCapped(a)
      PROVE  name'[i] # name'[j]
  <2>1. pending[a] \in Session /\ pending[a].addr = a /\ nickMu = Nil
    BY <1>4 DEF Inv, TypeOK, TryAddCapped
  <2>2. CASE AtCap(pending[a])
    BY <1>1, <1>4, <2>1, <2>2, RefusalKeeps DEF TryAddCapped, Reject, BeingNamed
  <2>3. CASE ~AtCap(pending[a])
    <3>1. Insert(pending[a])
      BY <1>4, <2>3 DEF TryAddCapped
    <3>2. nickMu' = a /\ nickMu' # Nil /\ pending'[a] = pending[a]
      BY <2>1, <3>1 DEF Insert
    <3>3. sessions'[IdOf(pending[a])] = pending[a]
      BY <2>1, <3>1, InsertedIs, IdOfType DEF Insert, Inv
    <3>4. i # IdOf(pending[a]) /\ j # IdOf(pending[a])
      BY <3>2, <3>3 DEF BeingNamed
    <3>5. sessions[i] # Nil /\ sessions[j] # Nil
      BY <2>1, <3>1, <3>4, InsertedIs DEF Insert, Inv
    <3>6. name'[i] = name[i] /\ name'[j] = name[j]
      BY <3>1, <3>4 DEF Insert, Inv, TypeOK
    <3> QED
      BY <1>1, <2>1, <3>5, <3>6 DEF BeingNamed
  <2> QED
    BY <2>2, <2>3
<1>5. ASSUME NEW a \in Addr, EnsureUniqueName(a)
      PROVE  name'[i] # name'[j]
  <2> DEFINE s == pending[a]
  <2>1. s \in Session /\ s.nick \in Name /\ nickMu = a /\ nickMu # Nil
    BY <1>5 DEF EnsureUniqueName, Inv, TypeOK, Session
  <2>2. sessions' = sessions
    BY <1>5 DEF EnsureUniqueName
  <2>3. CASE sessions[IdOf(s)] # s
    <3>1. ~BeingNamed(i) /\ ~BeingNamed(j)
      BY <2>1, <2>2, <2>3, EntriesDiffer DEF BeingNamed
    <3> QED
      BY <1>1, <1>5, <2>2, <2>3, <3>1 DEF EnsureUniqueName
  <2>4. CASE sessions[IdOf(s)] = s
    <3>1. /\ name'[IdOf(s)] = UniqueName(s.nick, Taken(s))
          /\ \A k \in Id \ {IdOf(s)} : name'[k] = name[k]
      BY <1>5, <2>1, <2>4, IdOfType DEF EnsureUniqueName, Inv, TypeOK
    <3>2. \A k \in Id \ {IdOf(s)} : sessions[k] # Nil => name[k] \in Taken(s)
      BY EntriesDiffer DEF Taken, Ids
    <3>3. UniqueName(s.nick, Taken(s)) \notin Taken(s)
      BY <2>1, <2>4, UniqueNameIs DEF Inv
    <3>4. CASE i = IdOf(s) \/ j = IdOf(s)
      BY <2>2, <3>1, <3>2, <3>3, <3>4
    <3>5. CASE i # IdOf(s) /\ j # IdOf(s)
      <4>1. ~BeingNamed(i) /\ ~BeingNamed(j)
        BY <2>1, <2>2, <3>5, EntriesDiffer DEF BeingNamed
      <4> QED
        BY <1>1, <2>2, <3>1, <3>5, <4>1
    <3> QED
      BY <3>4, <3>5
  <2> QED
    BY <2>3, <2>4
<1>6. ASSUME NEW k \in Id, RemoveSession(k)
      PROVE  name'[i] # name'[j]
  <2>1. \A l \in Id : sessions'[l] = IF l = k THEN Nil ELSE sessions[l]
    BY <1>6 DEF RemoveSession, Without, Inv, TypeOK
  <2>2. sessions'[i] = sessions[i] /\ sessions'[j] = sessions[j]
    BY <2>1
  <2> QED
    BY <1>1, <1>6, <2>2 DEF RemoveSession, BeingNamed
<1> QED
  BY <1>2, <1>3, <1>4, <1>5, <1>6 DEF Next

\* Two live sessions never show the same name once named: nickMu covers the
\* window between TryAddCapped and EnsureUniqueName, and the suffix loop finds
\* a free name however many are taken.
THEOREM Naming == Spec => []UniqueNames
  BY UniqueNamesInit, UniqueNamesNext, Invariance, PTL DEF Spec

-----------------------------------------------------------------------------
(***************************************************************************)
(* The registry implements SessionTable.  An insertion must be seen as the *)
(* arrival of a new session, so the mapping needs one more invariant: a    *)
(* session that is still to be added is not live yet.                      *)
(***************************************************************************)
Fresh ==
  /\ \A i \in Id : sessions[i] # Nil => sessions[i].num <= seq
  /\ \A a \in Addr : pending[a] # Nil =>
       /\ pending[a].num <= seq
       /\ nickMu # a => \A i \in Id : sessions[i] # pending[a]

\* A session that is being made is not in the registry: initially.
LEMMA FreshInit == Init => Fresh
  BY DEF Init, Fresh

\* ... and after every step.
LEMMA FreshNext == Inv /\ Fresh /\ [Next]_vars => Fresh'
<1> SUFFICES ASSUME Inv, Fresh, [Next]_vars PROVE Fresh'
  OBVIOUS
<1>1. CASE UNCHANGED vars
  BY <1>1 DEF vars, Fresh
<1>2. ASSUME NEW a \in Addr, NEW acc \in Account, NEW nick \in Name,
             NewSession(a, acc, nick)
      PROVE  Fresh'
  <2>1. \A b \in Addr : pending'[b] =
          IF b = a THEN [num |-> seq + 1, addr |-> a, account |-> acc, nick |-> nick]
                   ELSE pending[b]
    BY <1>2 DEF NewSession, Inv, TypeOK
  <2>2. seq \in Nat /\ seq' = seq + 1 /\ sessions' = sessions /\ nickMu' = nickMu
    BY <1>2 DEF NewSession, Inv, TypeOK
  <2>3. /\ \A i \in Id : sessions[i] # Nil => sessions[i].num \in Nat
        /\ \A b \in Addr : pending[b] # Nil => pending[b].num \in Nat
    BY DEF Inv, TypeOK, Session
  <2>4. \A i \in Id : sessions'[i] # Nil => sessions'[i].num <= seq'
    BY <2>2, <2>3 DEF Fresh
  <2>5. ASSUME NEW b \in Addr, pending'[b] # Nil
        PROVE  /\ pending'[b].num <= seq'
               /\ nickMu' # b => \A i \in Id : sessions'[i] # pending'[b]
    <3>1. CASE b = a
      <4>1. pending'[b].num = seq + 1 /\ pending'[b] # Nil
        BY <2>1, <2>5, <3>1
      <4>2. \A i \in Id : sessions[i] # pending'[b]
        BY <2>2, <2>3, <4>1 DEF Fresh
      <4> QED
        BY <2>2, <4>1, <4>2
    <3>2. CASE b # a
      BY <2>1, <2>2, <2>3, <2>5, <3>2 DEF Fresh
    <3> QED
      BY <3>1, <3>2
  <2> QED
    BY <2>4, <2>5 DEF Fresh
<1>3. ASSUME NEW a \in Addr, TryAddCapped(a)
      PROVE  Fresh'
  <2>1. pending[a] \in Session /\ pending[a].addr = a /\ nickMu = Nil /\ a # Nil
    BY <1>3 DEF Inv, TypeOK, TryAddCapped
  <2>2. CASE AtCap(pending[a])
    BY <1>3, <2>1, <2>2, RefusalKeeps DEF TryAddCapped, Reject, Fresh, Inv, TypeOK
  <2>3. CASE ~AtCap(pending[a])
    <3>1. Insert(pending[a]) /\ seq' = seq /\ pending' = pending /\ nickMu' = a
      BY <1>3, <2>1, <2>3 DEF TryAddCapped, Insert
    <3>2. \A i \in Id : sessions'[i] \in {sessions[i], pending[a], Nil}
      BY <2>1, <3>1, InsertedIs DEF Insert, Inv
    <3>3. \A b \in Addr : pending[b] # Nil => pending[b].addr = b
      BY DEF Inv, TypeOK
    <3>4. \A b \in Addr : b # a /\ pending[b] # Nil => pending[b] # pending[a]
      BY <2>1, <3>3
    <3>5. nickMu \notin Addr
      BY <2>1
    <3> QED
      BY <2>1, <3>1, <3>2, <3>4, <3>5 DEF Fresh
  <2> QED
    BY <2>2, <2>3
<1>4. ASSUME NEW a \in Addr, EnsureUniqueName(a)
      PROVE  Fresh'
  BY <1>4 DEF EnsureUniqueName, Fresh, Inv, TypeOK
<1>5. ASSUME NEW k \in Id, RemoveSession(k)
      PROVE  Fresh'
  <2>1. \A l \in Id : sessions'[l] \in {sessions[l], Nil}
    BY <1>5 DEF RemoveSession, Without, Inv, TypeOK
  <2>2. UNCHANGED <<seq, pending, nickMu>>
    BY <1>5 DEF RemoveSession
  <2> QED
    BY <2>1, <2>2 DEF Fresh
<1> QED
  BY <1>1, <1>2, <1>3, <1>4, <1>5 DEF Next

\* A table has no more entries than ids in use.
LEMMA EntriesCardinality ==
  ASSUME NEW tab
  PROVE  Cardinality(Entries(tab)) \in Nat
         /\ Cardinality(Entries(tab)) <= Cardinality(Ids(tab))
<1> DEFINE f == [i \in Ids(tab) |-> tab[i]]
<1>1. f \in Surjection(Ids(tab), Entries(tab))
  BY DEF Entries, Surjection
<1>2. /\ IsFiniteSet(Entries(tab))
      /\ Cardinality(Entries(tab)) <= Cardinality(Ids(tab))
  BY <1>1, IdsFinite, FS_Surjection
<1> QED
  BY <1>2, FS_CardinalityType

\* An insertion is a Join: exactly the conflicting sessions are displaced.
LEMMA InsertJoins ==
  ASSUME Inv, Inv', Fresh, NEW a \in Addr, TryAddCapped(a), ~AtCap(pending[a])
  PROVE  Table!Next
<1> DEFINE s == pending[a]
<1>1. s \in Session /\ nickMu = Nil /\ a # Nil
  BY DEF Inv, TypeOK, TryAddCapped
<1>2. sessions' = SessionsInserted(s)
  BY DEF TryAddCapped, Insert
<1>3. s \notin Live
  BY <1>1 DEF Fresh, Live, Entries, Ids
<1>4. s \in Live'
  BY <1>1, <1>2, InsertedIs, IdOfType DEF Live, Entries, Ids, Inv
<1>5. \A i \in Id : sessions[i] # Nil =>
        sessions[i] \in Session /\ IdOf(sessions[i]) = i
  BY DEF Inv, TypeOK, Index, IndexComplete, Ids
<1>6. \A i \in Id : sessions[i] # Nil =>
        (Table!Conflict(s, sessions[i]) <=>
           \/ i = IdOf(s)
           \/ sessions[i].addr = s.addr
           \/ sessions[i].account = s.account)
  BY <1>5 DEF Table!Conflict, IdOf
<1>7. \A i \in Id \ {IdOf(s)} : sessions'[i] =
        IF sessions[i] # Nil /\ ~Table!Conflict(s, sessions[i]) THEN sessions[i] ELSE Nil
  BY <1>1, <1>2, <1>6, InsertedIs DEF Inv
<1>8. sessions'[IdOf(s)] = s
  BY <1>1, <1>2, InsertedIs, IdOfType DEF Inv
<1>9. Live' = {s} \cup {t \in Live : ~Table!Conflict(s, t)}
  <2> HIDE DEF s
  <2>1. ASSUME NEW t \in Live' PROVE t \in {s} \cup {u \in Live : ~Table!Conflict(s, u)}
    <3>1. PICK i \in Id : sessions'[i] # Nil /\ t = sessions'[i]
      BY DEF Live, Entries, Ids
    <3> QED
      BY <1>7, <1>8, <3>1 DEF Live, Entries, Ids
  <2>2. ASSUME NEW t \in Live, ~Table!Conflict(s, t) PROVE t \in Live'
    <3>1. PICK i \in Id : sessions[i] # Nil /\ t = sessions[i]
      BY DEF Live, Entries, Ids
    <3>2. i # IdOf(s)
      BY <1>6, <2>2, <3>1
    <3>3. sessions'[i] = t /\ t # Nil
      BY <1>7, <2>2, <3>1, <3>2
    <3> QED
      BY <3>3 DEF Live, Entries, Ids
  <2> QED
    BY <1>4, <2>1, <2>2
<1>10. MaxPlayers > 0 => Cardinality(Live') <= MaxPlayers
  <2>1. MaxPlayers > 0 => Cardinality(Ids(sessions')) <= MaxPlayers
    BY DEF Inv, CapRespected
  <2>2. Cardinality(Entries(sessions')) \in Nat /\ Cardinality(Ids(sessions')) \in Nat
        /\ Cardinality(Entries(sessions')) <= Cardinality(Ids(sessions'))
    BY EntriesCardinality, IdsFinite
  <2>3. Live' = Entries(sessions')
    BY DEF Live
  <2> QED
    BY <2>1, <2>2, <2>3
<1>11. Table!Join(s)
  BY <1>9, <1>10 DEF Table!Join, Table!Cardinality, Cardinality
<1> QED
  BY <1>3, <1>4, <1>11 DEF Table!Next

\* Every step of the registry is a step of the table or leaves it as it is.
LEMMA StepRefines ==
  Inv /\ Inv' /\ Fresh /\ [Next]_vars => [Table!Next]_Live
<1> SUFFICES ASSUME Inv, Inv', Fresh, [Next]_vars
             PROVE  Table!Next \/ Live' = Live
  OBVIOUS
<1>1. sessions' = sessions => Live' = Live
  BY DEF Live, Entries, Ids
<1>2. CASE UNCHANGED vars
  BY <1>1, <1>2 DEF vars
<1>3. ASSUME NEW a \in Addr, NEW acc \in Account, NEW nick \in Name,
             NewSession(a, acc, nick)
      PROVE  Live' = Live
  BY <1>1, <1>3 DEF NewSession
<1>4. ASSUME NEW a \in Addr, TryAddCapped(a)
      PROVE  Table!Next \/ Live' = Live
  <2>1. CASE ~AtCap(pending[a])
    BY <1>4, <2>1, InsertJoins
  <2>2. CASE AtCap(pending[a])
    <3>1. pending[a] \in Session
      BY <1>4 DEF Inv, TypeOK, TryAddCapped
    <3> QED
      BY <1>1, <1>4, <2>2, <3>1, RefusalKeeps DEF TryAddCapped, Reject
  <2> QED
    BY <2>1, <2>2
<1>5. ASSUME NEW a \in Addr, EnsureUniqueName(a)
      PROVE  Live' = Live
  BY <1>1, <1>5 DEF EnsureUniqueName
<1>6. ASSUME NEW k \in Id, RemoveSession(k)
      PROVE  Table!Next
  <2>1. \A l \in Id : sessions'[l] = IF l = k THEN Nil ELSE sessions[l]
    BY <1>6 DEF RemoveSession, Without, Inv, TypeOK
  <2>2. sessions[k] # Nil
    BY <1>6 DEF RemoveSession
  <2>3. \A l \in Id : sessions[l] = sessions[k] => l = k
    BY <2>2, EntriesDiffer
  <2>4. Live' = Live \ {sessions[k]}
    BY <2>1, <2>2, <2>3 DEF Live, Entries, Ids
  <2>5. sessions[k] \in Live
    BY <2>2 DEF Live, Entries, Ids
  <2> QED
    BY <2>4, <2>5 DEF Table!Next, Table!Leave
<1> QED
  BY <1>2, <1>3, <1>4, <1>5, <1>6 DEF Next

\* The registry with its three indexes implements the abstract table: sessions
\* arrive by displacing exactly those they conflict with, leave one at a time,
\* and a refused handshake is no step at all.
THEOREM Refinement == Spec => TableSpec
<1>1. Init => Table!Init
  BY DEF Init, Table!Init, Live, Entries, Ids
<1>2. Spec => []Fresh
  BY FreshInit, FreshNext, Invariance, PTL DEF Spec
<1> QED
  BY <1>1, <1>2, StepRefines, Invariance, PTL DEF Spec, TableSpec, Table!Spec
=============================================================================
