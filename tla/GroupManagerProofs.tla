-------------------------- MODULE GroupManagerProofs --------------------------
(***************************************************************************)
(* The parties stay well formed, for any number of sessions and any limit. *)
(*                                                                         *)
(* The invariant has two halves.  `Parties` is about the maps that Accept  *)
(* and Leave write; it needs the four properties together: the membership  *)
(* map must be exact for a dissolution to release everybody, and the sizes *)
(* must be right for it to happen in time.  `Letters` is about the         *)
(* invitations and the commands under way, and gives Accept its inviter.   *)
(***************************************************************************)
EXTENDS GroupManager, FiniteSetTheorems, TLAPS

PartyTypes ==
  /\ groups \in [GroupIds -> [leader: Session \cup {0}, members: SUBSET Session]]
  /\ membership \in [Session -> GroupIds \cup {NoGroup}]
  /\ nextID \in 0 .. MaxGroups
  /\ maxMembers \in Limits
  /\ \A g \in GroupIds : groups[g].members # {} => g <= nextID

Finite == \A g \in GroupIds : IsFiniteSet(groups[g].members)

Parties == PartyTypes /\ Finite /\ RosterExact /\ LedByMember /\ SizeBounds

Letters ==
  /\ live \subseteq Session
  /\ invites \in [Session -> [from: Session \cup {0}, expired: BOOLEAN]]
  /\ handler \in [Session -> [pc: {"idle", "invite", "check", "accept"},
                              with: Session \cup {0}]]
  /\ leaving \in [Session -> Seq({"leave", "remove", "forget"})]
  /\ \A t \in Session : invites[t] # NoInvite => invites[t].from \in Session \ {t}
  /\ \A s \in Session : handler[s].pc = "invite" => handler[s].with \in Session

Inv == Parties /\ Letters

USE MaxGroupsAssumption, SessionAssumption
-----------------------------------------------------------------------------
\* The sizes of the two rosters that Accept can start from.
LEMMA SmallSets ==
  ASSUME NEW i, NEW t, i # t
  PROVE  /\ IsFiniteSet({i}) /\ Cardinality({i}) = 1
         /\ IsFiniteSet({i, t}) /\ Cardinality({i, t}) = 2
<1>1. IsFiniteSet({i}) /\ Cardinality({i}) = 1
  BY FS_Singleton
<1>2. {i, t} = {i} \cup {t} /\ t \notin {i}
  OBVIOUS
<1>3. IsFiniteSet({i} \cup {t}) /\ Cardinality({i} \cup {t}) = Cardinality({i}) + 1
  BY <1>1, <1>2, FS_AddElement
<1> QED
  BY <1>1, <1>2, <1>3

\* The limit is a positive number.
LEMMA LimitType ==
  ASSUME maxMembers \in Limits
  PROVE  maxMembers \in Nat /\ maxMembers > 0
  BY LimitsAssumption

\* Steps that leave the groups alone keep the parties.
LEMMA PartiesFrame ==
  ASSUME Parties, UNCHANGED <<groups, membership, nextID, maxMembers>>
  PROVE  Parties'
  BY DEF Parties, PartyTypes, Finite, RosterExact, LedByMember, SizeBounds

\* What Accept does for an inviter i with a group g.
Join(i, g, joined) ==
  /\ nextID' = nextID
  /\ groups' = [groups EXCEPT ![g] =
       [leader |-> groups[g].leader, members |-> groups[g].members \cup joined]]
  /\ membership' = [m \in Session |->
       IF m \in {i} \cup joined THEN g ELSE membership[m]]

\* Joining a group that exists.
LEMMA JoinKeeps ==
  ASSUME Parties,
         NEW i \in Session, NEW t \in Session \ {i}, membership[t] = NoGroup,
         NEW g \in GroupIds, membership[i] = g,
         NEW joined, joined = (IF HasRoom(i) THEN {t} ELSE {}),
         Join(i, g, joined), UNCHANGED maxMembers
  PROVE  Parties'
<1> DEFINE old == groups[g].members
           new == groups'[g].members
<1>1. /\ g \in GroupIds /\ i \in old /\ old \subseteq Session
      /\ IsFiniteSet(old) /\ groups[g].leader \in old
      /\ Cardinality(old) \in Nat /\ Cardinality(old) <= maxMembers
      /\ maxMembers > 1 => Cardinality(old) # 1
  BY FS_CardinalityType
  DEF Parties, PartyTypes, Finite, RosterExact, LedByMember, SizeBounds, NoGroup, GroupIds
<1>2. new = old \cup joined /\ groups'[g].leader = groups[g].leader
  BY <1>1 DEF Join, Parties, PartyTypes
<1>3. \A h \in GroupIds \ {g} : groups'[h] = groups[h]
  BY DEF Join, Parties, PartyTypes
<1>4. t \notin old
  BY <1>1 DEF Parties, RosterExact, NoGroup, GroupIds
<1>5. HasRoom(i) <=> Cardinality(old) < maxMembers
  BY <1>1 DEF HasRoom, RosterOf, NoGroup, GroupIds
<1>6. /\ IsFiniteSet(new) /\ Cardinality(new) <= maxMembers
      /\ maxMembers > 1 => Cardinality(new) # 1
  <2>1. CASE HasRoom(i)
    <3>1. new = old \cup {t}
      BY <1>2, <2>1
    <3>2. IsFiniteSet(new) /\ Cardinality(new) = Cardinality(old) + 1
      <4> HIDE DEF old, new
      <4>1. IsFiniteSet(old) /\ t \notin old
        BY <1>1, <1>4
      <4>2. /\ IsFiniteSet(old \cup {t})
            /\ Cardinality(old \cup {t}) =
                 IF t \in old THEN Cardinality(old) ELSE Cardinality(old) + 1
        BY ONLY <4>1, FS_AddElement, Zenon
      <4> QED
        BY ONLY <3>1, <4>1, <4>2
    <3>3. Cardinality(old) # 0
      BY <1>1, FS_EmptySet
    <3> QED
      BY <1>1, <1>5, <2>1, <3>2, <3>3, LimitType DEF Parties, PartyTypes
  <2>2. CASE ~HasRoom(i)
    BY <1>1, <1>2, <2>2
  <2> QED
    BY <2>1, <2>2
<1>7. PartyTypes'
  BY <1>1, <1>2, <1>3 DEF Join, Parties, PartyTypes
<1>8. Finite' /\ SizeBounds'
  BY <1>3, <1>6 DEF Parties, Finite, SizeBounds
<1>9. LedByMember'
  BY <1>1, <1>2, <1>3 DEF Parties, LedByMember
<1>10. RosterExact'
  <2>1. \A m \in joined : m = t /\ m \in new
    BY <1>2
  <2>2. \A m \in Session : membership'[m] # NoGroup => m \in groups'[membership'[m]].members
    BY <1>1, <1>2, <1>3, <2>1 DEF Join, Parties, PartyTypes, RosterExact
  <2>3. \A m \in new : membership'[m] = g
    BY <1>1, <1>2, <2>1 DEF Join, Parties, RosterExact
  <2>4. \A h \in GroupIds \ {g} : \A m \in groups'[h].members : membership'[m] = h
    <3> SUFFICES ASSUME NEW h \in GroupIds \ {g}, NEW m \in groups'[h].members
                 PROVE  membership'[m] = h
      OBVIOUS
    <3>1. m \in groups[h].members /\ m \in Session /\ membership[m] = h
      BY <1>3 DEF Parties, PartyTypes, RosterExact
    <3>2. m # i /\ m # t
      BY <3>1 DEF NoGroup, GroupIds
    <3> QED
      BY <3>1, <3>2 DEF Join
  <2> QED
    BY <2>2, <2>3, <2>4 DEF RosterExact
<1> QED
  BY <1>7, <1>8, <1>9, <1>10 DEF Parties

\* What Accept does for an inviter i without a group.
Found(i, joined) ==
  /\ nextID + 1 \in GroupIds
  /\ nextID' = nextID + 1
  /\ groups' = [groups EXCEPT ![nextID + 1] =
       [leader |-> i, members |-> {i} \cup joined]]
  /\ membership' = [m \in Session |->
       IF m \in {i} \cup joined THEN nextID + 1 ELSE membership[m]]

\* Joining a group that is made for the occasion.
LEMMA FoundKeeps ==
  ASSUME Parties,
         NEW i \in Session, NEW t \in Session \ {i}, membership[t] = NoGroup,
         membership[i] = NoGroup,
         NEW joined, joined = (IF HasRoom(i) THEN {t} ELSE {}),
         Found(i, joined), UNCHANGED maxMembers
  PROVE  Parties'
<1> USE DEF Found
<1> DEFINE g == nextID + 1
           new == {i} \cup joined
<1>1. nextID \in Nat /\ g \in GroupIds /\ groups[g].members = {}
  BY DEF Parties, PartyTypes
<1>2. groups'[g].members = new /\ groups'[g].leader = i
  BY <1>1 DEF Parties, PartyTypes
<1>3. \A h \in GroupIds \ {g} : groups'[h] = groups[h]
  BY DEF Parties, PartyTypes
<1>4. HasRoom(i) <=> 1 < maxMembers
  BY SmallSets DEF HasRoom, RosterOf
<1>5. /\ IsFiniteSet(new) /\ Cardinality(new) <= maxMembers
      /\ maxMembers > 1 => Cardinality(new) # 1
  <2>1. CASE HasRoom(i)
    <3>1. new = {i, t}
      BY <2>1
    <3>2. IsFiniteSet({i, t}) /\ Cardinality({i, t}) = 2
      BY SmallSets
    <3>3. IsFiniteSet(new) /\ Cardinality(new) = 2
      BY <3>1, <3>2
    <3> HIDE DEF new
    <3> QED
      BY <1>4, <2>1, <3>3, LimitType DEF Parties, PartyTypes
  <2>2. CASE ~HasRoom(i)
    <3>1. new = {i}
      BY <2>2
    <3>2. IsFiniteSet({i}) /\ Cardinality({i}) = 1
      BY SmallSets
    <3>3. IsFiniteSet(new) /\ Cardinality(new) = 1
      BY <3>1, <3>2
    <3> HIDE DEF new
    <3> QED
      BY <1>4, <2>2, <3>3, LimitType DEF Parties, PartyTypes
  <2> QED
    BY <2>1, <2>2
<1>6. new \subseteq Session /\ \A m \in new : membership[m] = NoGroup
  OBVIOUS
<1>7. PartyTypes'
  <2>1. groups' \in [GroupIds -> [leader: Session \cup {0}, members: SUBSET Session]]
    BY <1>1, <1>6 DEF Parties, PartyTypes
  <2>2. membership' \in [Session -> GroupIds \cup {NoGroup}]
    BY <1>1 DEF Parties, PartyTypes
  <2>3. nextID' \in 0 .. MaxGroups
    BY <1>1 DEF GroupIds
  <2>4. \A h \in GroupIds : groups'[h].members # {} => h <= nextID'
    BY <1>1, <1>3 DEF Parties, PartyTypes, GroupIds
  <2> QED
    BY <2>1, <2>2, <2>3, <2>4 DEF Parties, PartyTypes
<1>8. Finite' /\ SizeBounds'
  <2>1. Finite'
    BY <1>2, <1>3, <1>5 DEF Parties, Finite
  <2>2. SizeBounds'
    BY <1>2, <1>3, <1>5 DEF Parties, SizeBounds
  <2> QED
    BY <2>1, <2>2
<1>9. LedByMember'
  BY <1>2, <1>3 DEF Parties, LedByMember
<1>10. RosterExact'
  <2>1. \A m \in Session : membership'[m] # NoGroup => m \in groups'[membership'[m]].members
    <3> SUFFICES ASSUME NEW m \in Session, membership'[m] # NoGroup
                 PROVE  m \in groups'[membership'[m]].members
      OBVIOUS
    <3>1. CASE m \in new
      BY <1>2, <3>1
    <3>2. CASE m \notin new
      <4>1. membership'[m] = membership[m] /\ m \in groups[membership[m]].members
        BY <3>2 DEF Parties, RosterExact
      <4>2. membership[m] \in GroupIds \ {g}
        BY <1>1, <4>1 DEF Parties, PartyTypes
      <4> QED
        BY <1>3, <4>1, <4>2
    <3> QED
      BY <3>1, <3>2
  <2>2. \A h \in GroupIds : \A m \in groups'[h].members : membership'[m] = h
    <3> SUFFICES ASSUME NEW h \in GroupIds, NEW m \in groups'[h].members
                 PROVE  membership'[m] = h
      OBVIOUS
    <3>1. CASE h = g
      BY <1>2, <1>6, <3>1
    <3>2. CASE h # g
      <4>1. m \in Session /\ membership[m] = h
        BY <1>3, <3>2 DEF Parties, PartyTypes, RosterExact
      <4>2. m \notin new
        BY <1>6, <4>1 DEF NoGroup, GroupIds
      <4> QED
        BY <4>1, <4>2
    <3> QED
      BY <3>1, <3>2
  <2> QED
    BY <2>1, <2>2 DEF RosterExact
<1> QED
  BY <1>7, <1>8, <1>9, <1>10 DEF Parties

\* Accept keeps the parties.
LEMMA AcceptKeeps ==
  ASSUME Inv, NEW t \in Session, Accept(t), UNCHANGED maxMembers
  PROVE  Parties'
<1>1. CASE invites[t] = NoInvite \/ invites[t].expired \/ membership[t] # NoGroup
  BY <1>1, PartiesFrame DEF Accept, Inv
<1>2. CASE ~(invites[t] = NoInvite \/ invites[t].expired \/ membership[t] # NoGroup)
  <2>1. PICK i \in Session : i = invites[t].from
    BY <1>2 DEF Inv, Letters
  <2>2. t \in Session \ {i} /\ membership[t] = NoGroup
    BY <1>2, <2>1 DEF Inv, Letters
  <2>3. PICK joined : joined = IF HasRoom(i) THEN {t} ELSE {}
    OBVIOUS
  <2>4. /\ GroupOf(i) \in GroupIds
        /\ nextID' = IF membership[i] = NoGroup THEN GroupOf(i) ELSE nextID
        /\ groups' = [groups EXCEPT ![GroupOf(i)] =
             [leader |-> RosterOf(i).leader, members |-> RosterOf(i).members \cup joined]]
        /\ membership' = [m \in Session |->
             IF m \in {i} \cup joined THEN GroupOf(i) ELSE membership[m]]
    BY <1>2, <2>1, <2>3 DEF Accept
  <2>5. CASE membership[i] # NoGroup
    <3>0. PICK g \in GroupIds : membership[i] = g
      BY <2>4, <2>5 DEF GroupOf
    <3>1. GroupOf(i) = g /\ RosterOf(i) = groups[g]
      BY <2>5, <3>0 DEF GroupOf, RosterOf
    <3>2. Join(i, g, joined)
      BY <2>4, <2>5, <3>1 DEF Join
    <3>3. Parties
      BY DEF Inv
    <3> QED
      BY <2>2, <2>3, <3>0, <3>2, <3>3, JoinKeeps
  <2>6. CASE membership[i] = NoGroup
    <3>1. /\ GroupOf(i) = nextID + 1
          /\ RosterOf(i) = [leader |-> i, members |-> {i}]
      BY <2>6 DEF GroupOf, RosterOf
    <3>2. RosterOf(i).leader = i /\ RosterOf(i).members = {i}
      BY <3>1
    <3>3. Found(i, joined)
      BY <2>4, <2>6, <3>1, <3>2 DEF Found
    <3>4. Parties
      BY DEF Inv
    <3> QED
      BY <2>2, <2>3, <2>6, <3>3, <3>4, FoundKeeps
  <2> QED
    BY <2>5, <2>6
<1> QED
  BY <1>1, <1>2

\* Leave keeps the parties.
LEMMA LeaveKeeps ==
  ASSUME Parties, NEW s \in Session, Leave(s), UNCHANGED maxMembers
  PROVE  Parties'
<1> DEFINE g == membership[s]
           old == groups[g].members
<1>1. CASE g = NoGroup
  BY <1>1, PartiesFrame DEF Leave
<1>2. CASE g # NoGroup
  <2>1. /\ g \in GroupIds /\ s \in old /\ IsFiniteSet(old)
        /\ groups[g].leader \in old /\ Cardinality(old) \in Nat
        /\ Cardinality(old) <= maxMembers
        /\ \A m \in old : m \in Session /\ membership[m] = g
    BY <1>2, FS_CardinalityType
    DEF Parties, PartyTypes, Finite, RosterExact, LedByMember, SizeBounds, NoGroup
  <2>2. /\ IsFiniteSet(old \ {s})
        /\ Cardinality(old \ {s}) = Cardinality(old) - 1
    BY <2>1, FS_RemoveElement
  <2>3. /\ nextID' = nextID
        /\ groups' = [groups EXCEPT ![g] = Without(s, g)]
        /\ membership' = [m \in Session |->
             IF m = s \/ (Dissolves(s, g) /\ m \in old) THEN NoGroup ELSE membership[m]]
    BY <1>2 DEF Leave
  <2>4. \A h \in GroupIds \ {g} : groups'[h] = groups[h]
    BY <2>3 DEF Parties, PartyTypes
  <2>5. \A h \in GroupIds \ {g} : \A m \in groups[h].members :
          m \in Session /\ membership[m] = h /\ m # s /\ m \notin old
    BY <2>1 DEF Parties, PartyTypes, RosterExact
  <2>6. CASE Dissolves(s, g)
    <3>1. groups'[g] = Absent
      BY <2>1, <2>3, <2>6 DEF Parties, PartyTypes, Without
    <3>2. PartyTypes'
      BY <2>1, <2>3, <2>4, <2>6, <3>1 DEF Parties, PartyTypes, Absent
    <3>3. Finite' /\ SizeBounds' /\ LedByMember'
      <4>1. IsFiniteSet({}) /\ Cardinality({}) = 0
        BY FS_EmptySet
      <4>2. Finite'
        BY <2>4, <3>1, <4>1 DEF Parties, Finite, Absent
      <4>3. SizeBounds'
        <5>1. maxMembers' = maxMembers /\ maxMembers \in Nat /\ maxMembers > 0
          BY LimitType DEF Parties, PartyTypes
        <5>2. Cardinality(groups'[g].members) = 0
          BY <3>1, <4>1 DEF Absent
        <5>3. \A h \in GroupIds \ {g} :
                /\ Cardinality(groups'[h].members) <= maxMembers
                /\ maxMembers > 1 => Cardinality(groups'[h].members) # 1
          BY <2>4 DEF Parties, SizeBounds
        <5> QED
          BY <5>1, <5>2, <5>3 DEF SizeBounds
      <4>4. LedByMember'
        BY <2>4, <3>1 DEF Parties, LedByMember, Absent
      <4> QED
        BY <4>2, <4>3, <4>4
    <3>4. \A m \in Session : membership'[m] # NoGroup =>
            m \in groups'[membership'[m]].members
      <4> SUFFICES ASSUME NEW m \in Session, membership'[m] # NoGroup
                   PROVE  m \in groups'[membership'[m]].members
        OBVIOUS
      <4>1. m # s /\ m \notin old /\ membership'[m] = membership[m]
        BY <2>3, <2>6
      <4>2. m \in groups[membership[m]].members /\ membership[m] \in GroupIds
        BY <4>1 DEF Parties, PartyTypes, RosterExact
      <4> QED
        BY <2>4, <4>1, <4>2
    <3>5. \A h \in GroupIds : \A m \in groups'[h].members : membership'[m] = h
      BY <2>3, <2>4, <2>5, <3>1 DEF Absent
    <3> QED
      BY <3>2, <3>3, <3>4, <3>5 DEF Parties, RosterExact
  <2>7. CASE ~Dissolves(s, g)
    <3>0. groups[g].leader # s /\ ~(Cardinality(old) - 1 <= 1)
      BY <2>2, <2>7 DEF Dissolves
    <3>1. /\ groups'[g].members = old \ {s}
          /\ groups'[g].leader = groups[g].leader
      BY <2>1, <2>3, <2>7 DEF Parties, PartyTypes, Without
    <3>2. membership' = [membership EXCEPT ![s] = NoGroup]
      BY <2>3, <2>7 DEF Parties, PartyTypes
    <3>3. PartyTypes'
      <4>1. groups' = [groups EXCEPT ![g] = [leader |-> groups[g].leader, members |-> old \ {s}]]
        BY <2>3, <2>7 DEF Without
      <4>2. groups' \in [GroupIds -> [leader: Session \cup {0}, members: SUBSET Session]]
        BY <2>1, <4>1 DEF Parties, PartyTypes
      <4>3. membership' \in [Session -> GroupIds \cup {NoGroup}]
        BY <3>2 DEF Parties, PartyTypes
      <4>4. \A h \in GroupIds : groups'[h].members # {} => h <= nextID
        BY <2>1, <2>4 DEF Parties, PartyTypes
      <4> QED
        BY <2>3, <4>2, <4>3, <4>4 DEF Parties, PartyTypes
    <3>4. Finite' /\ SizeBounds' /\ LedByMember'
      <4>1. /\ IsFiniteSet(groups'[g].members)
            /\ Cardinality(groups'[g].members) = Cardinality(old) - 1
        BY <2>2, <3>1
      <4>2. Finite'
        BY <2>4, <4>1 DEF Parties, Finite
      <4>3. SizeBounds'
        BY <2>1, <2>4, <3>0, <4>1, LimitType DEF Parties, PartyTypes, SizeBounds
      <4>4. LedByMember'
        BY <2>1, <2>4, <3>0, <3>1 DEF Parties, LedByMember
      <4> QED
        BY <4>2, <4>3, <4>4
    <3>5. \A m \in Session : membership'[m] # NoGroup =>
            m \in groups'[membership'[m]].members
      BY <2>4, <3>1, <3>2 DEF Parties, PartyTypes, RosterExact
    <3>6. \A h \in GroupIds : \A m \in groups'[h].members : membership'[m] = h
      BY <2>1, <2>4, <2>5, <3>1, <3>2 DEF Parties, PartyTypes
    <3> QED
      BY <3>3, <3>4, <3>5, <3>6 DEF Parties, RosterExact
  <2> QED
    BY <2>6, <2>7
<1> QED
  BY <1>1, <1>2
-----------------------------------------------------------------------------
\* The invariant holds initially.
LEMMA InvInit == Init => Inv
<1> SUFFICES ASSUME Init PROVE Inv
  OBVIOUS
<1>1. Parties
  <2>1. IsFiniteSet({}) /\ Cardinality({}) = 0
    BY FS_EmptySet
  <2>2. \A g \in GroupIds : groups[g].members = {}
    BY DEF Init, Absent
  <2>3. PartyTypes
    BY <2>2 DEF Init, PartyTypes, Absent
  <2>4. Finite /\ SizeBounds
    <3>1. \A g \in GroupIds :
            IsFiniteSet(groups[g].members) /\ Cardinality(groups[g].members) = 0
      BY <2>1, <2>2
    <3> QED
      BY <3>1, LimitType DEF Init, Finite, SizeBounds
  <2>5. RosterExact /\ LedByMember
    BY <2>2 DEF Init, RosterExact, LedByMember
  <2> QED
    BY <2>3, <2>4, <2>5 DEF Parties
<1>2. Letters
  BY DEF Init, Letters, NoInvite, Idle
<1> QED
  BY <1>1, <1>2 DEF Inv

\* A command of a session, whatever other goroutines are doing.
LEMMA InvCommand ==
  ASSUME Inv, UNCHANGED maxMembers, NEW s \in Session,
         \/ \E t \in Session : InviteCommand(s, t)
         \/ InviteTarget(s)
         \/ AcceptCommand(s)
         \/ InviterOnline(s)
         \/ InviterGone(s)
         \/ AcceptInvite(s)
         \/ DeclineCommand(s)
         \/ LeaveCommand(s)
  PROVE  Inv'
<1>1. CASE \E t \in Session : InviteCommand(s, t)
  BY <1>1, PartiesFrame DEF InviteCommand, Inv, Letters, Ready, gmVars
<1>2. CASE InviteTarget(s)
  <2>1. handler[s].with \in Session
    BY <1>2 DEF InviteTarget, Inv, Letters
  <2>2. Letters'
    BY <1>2, <2>1 DEF InviteTarget, Invite, Inv, Letters, NoInvite, Idle
  <2> QED
    BY <1>2, <2>2, PartiesFrame DEF InviteTarget, Invite, Inv
<1>3. CASE AcceptCommand(s)
  <2>1. Letters'
    BY <1>3 DEF AcceptCommand, Inv, Letters, Ready, gmVars
  <2> QED
    BY <1>3, <2>1, PartiesFrame DEF AcceptCommand, Inv, gmVars
<1>4. CASE InviterOnline(s)
  <2>1. Letters'
    BY <1>4 DEF InviterOnline, Inv, Letters, gmVars
  <2> QED
    BY <1>4, <2>1, PartiesFrame DEF InviterOnline, Inv, gmVars
<1>5. CASE InviterGone(s)
  <2>1. Letters'
    BY <1>5 DEF InviterGone, Decline, Inv, Letters, NoInvite, Idle
  <2> QED
    BY <1>5, <2>1, PartiesFrame DEF InviterGone, Decline, Inv
<1>6. CASE AcceptInvite(s)
  <2>1. Parties'
    BY <1>6, AcceptKeeps DEF AcceptInvite
  <2>2. Letters'
    BY <1>6 DEF AcceptInvite, Accept, Inv, Letters, NoInvite, Idle
  <2> QED
    BY <2>1, <2>2 DEF Inv
<1>7. CASE DeclineCommand(s)
  <2>1. Letters'
    BY <1>7 DEF DeclineCommand, Decline, Inv, Letters, NoInvite
  <2> QED
    BY <1>7, <2>1, PartiesFrame DEF DeclineCommand, Decline, Inv
<1>8. CASE LeaveCommand(s)
  <2>1. Parties'
    BY <1>8, LeaveKeeps DEF LeaveCommand, Inv
  <2>2. Letters'
    BY <1>8 DEF LeaveCommand, Leave, Inv, Letters
  <2> QED
    BY <2>1, <2>2 DEF Inv
<1> QED
  BY <1>1, <1>2, <1>3, <1>4, <1>5, <1>6, <1>7, <1>8

\* A step of a departure.
LEMMA InvDepart ==
  ASSUME Inv, UNCHANGED maxMembers, NEW s \in Session, Depart(s) \/ Evict(s) \/ DepartStep(s)
  PROVE  Inv'
<1>1. CASE Depart(s)
  BY <1>1, PartiesFrame DEF Depart, Inv, Letters, gmVars
<1>2. CASE Evict(s)
  BY <1>2, PartiesFrame DEF Evict, Inv, Letters, gmVars
<1>3. CASE DepartStep(s)
  <2>1. leaving' \in [Session -> Seq({"leave", "remove", "forget"})]
    BY <1>3 DEF DepartStep, Inv, Letters
  <2>2. CASE Leave(s) /\ UNCHANGED live
    <3>1. Parties'
      BY <2>2, LeaveKeeps DEF Inv
    <3>2. Letters'
      BY <1>3, <2>1, <2>2 DEF DepartStep, Leave, Inv, Letters
    <3> QED
      BY <3>1, <3>2 DEF Inv
  <2>3. CASE live' = live \ {s} /\ UNCHANGED gmVars
    BY <1>3, <2>1, <2>3, PartiesFrame DEF DepartStep, gmVars, Inv, Letters
  <2>4. CASE ForgetSession(s) /\ UNCHANGED live
    BY <1>3, <2>1, <2>4, PartiesFrame DEF DepartStep, ForgetSession, Inv, Letters, NoInvite
  <2> QED
    BY <1>3, <2>2, <2>3, <2>4 DEF DepartStep
<1> QED
  BY <1>1, <1>2, <1>3

\* Every step keeps the invariant.
LEMMA InvNext == Inv /\ [Next]_vars => Inv'
<1> SUFFICES ASSUME Inv, [Next]_vars PROVE Inv'
  OBVIOUS
<1>1. CASE UNCHANGED vars
  BY <1>1, PartiesFrame DEF vars, gmVars, Inv, Letters
<1>2. CASE Tick /\ UNCHANGED <<live, handler, leaving, maxMembers>>
  BY <1>2, PartiesFrame DEF Tick, Inv, Letters, NoInvite
<1>3. ASSUME NEW s \in Session, Expire(s), UNCHANGED maxMembers
      PROVE  Inv'
  <2>1. invites' = [invites EXCEPT ![s] = [from |-> @.from, expired |-> TRUE]] /\ invites[s] # NoInvite
    BY <1>3 DEF Expire
  <2>2. \A t \in Session : invites'[t].from = invites[t].from
    BY <2>1 DEF Inv, Letters
  <2>3. \A t \in Session : invites'[t] # NoInvite => invites[t] # NoInvite
    BY <2>1 DEF Inv, Letters
  <2>4. invites' \in [Session -> [from: Session \cup {0}, expired: BOOLEAN]]
    BY <2>1 DEF Inv, Letters
  <2>5. Letters'
    BY <1>3, <2>2, <2>3, <2>4 DEF Expire, Inv, Letters
  <2> QED
    BY <1>3, <2>5, PartiesFrame DEF Expire, Inv
<1> QED
  BY <1>1, <1>2, <1>3, InvCommand, InvDepart DEF Next

\* The invariant holds throughout.
LEMMA Invariance == Spec => []Inv
<1> QED
  BY InvInit, InvNext, PTL DEF Spec

\* Types, for every behaviour.
THEOREM Typing == Spec => []TypeOK
<1>1. Inv => TypeOK
  BY DEF Inv, Parties, PartyTypes, Letters, TypeOK
<1> QED
  BY <1>1, Invariance, PTL

\* Membership map and rosters always agree, a party is led by one of its
\* members, and its size stays within the limit and is never one: for any
\* number of sessions inviting, accepting, leaving and departing at once.
THEOREM WellFormed == Spec => []PartiesSound
<1>1. Inv => PartiesSound
  BY DEF Inv, Parties, PartiesSound
<1> QED
  BY <1>1, Invariance, PTL
=============================================================================
