----------------------------- MODULE GroupManager -----------------------------
(***************************************************************************)
(* Parties: game/groups.go, the chat commands and packets that drive it,   *)
(* and the departure of sessions that takes members out.                   *)
(*                                                                         *)
(* Every method of GroupManager runs under its mutex and is one step.  The *)
(* handlers /invite and /accept look sessions up in the registry and call  *)
(* the manager afterwards; the departure of a session (disconnect, stale   *)
(* timeout, kick, eviction) is Leave, RemoveSession and ForgetSession,     *)
(* made by any goroutine, and other goroutines run between the calls.      *)
(* Decline and Leave by command have one effect each and are one step.     *)
(***************************************************************************)
EXTENDS Integers, Sequences, FiniteSets

CONSTANTS
  Session,     \* session ids, each used by one session
  Limits,      \* the values of group_max_players, clamped to 1 .. 8
  MaxGroups,   \* bound on the groups created
  MaxGone      \* bound on the sessions that depart

ASSUME LimitsAssumption == Limits \subseteq Nat \ {0}
ASSUME MaxGroupsAssumption == MaxGroups \in Nat
ASSUME MaxGoneAssumption == MaxGone \in Nat
ASSUME SessionAssumption == 0 \notin Session

GroupIds == 1 .. MaxGroups
NoGroup == 0
NoInvite == [from |-> 0, expired |-> FALSE]
Absent == [leader |-> 0, members |-> {}]
Idle == [pc |-> "idle", with |-> 0]

VARIABLES
  live,        \* sessions in the registry
  groups,      \* GroupManager.groups
  membership,  \* GroupManager.membership
  invites,     \* GroupManager.invites, by target
  nextID,      \* GroupManager.nextID
  maxMembers,  \* GroupManager.maxMembers, set when the server starts
  handler,     \* the command each session's worker is in
  leaving      \* what remains of each session's departure

gmVars == <<groups, membership, invites, nextID>>
vars == <<live, gmVars, maxMembers, handler, leaving>>

Init ==
  /\ live = Session
  /\ groups = [g \in GroupIds |-> Absent]
  /\ membership = [s \in Session |-> NoGroup]
  /\ invites = [s \in Session |-> NoInvite]
  /\ nextID = 0
  /\ maxMembers \in Limits
  /\ handler = [s \in Session |-> Idle]
  /\ leaving = [s \in Session |-> <<>>]

(***************************************************************************)
(* The methods of GroupManager.                                            *)
(***************************************************************************)
\* Mutant: a player may invite himself.
MutInvite(s, t) ==
  /\ invites' = IF invites[t] # NoInvite /\ ~invites[t].expired
                THEN invites
                ELSE [invites EXCEPT ![t] = [from |-> s, expired |-> FALSE]]
  /\ UNCHANGED <<groups, membership, nextID>>

\* An unexpired invitation blocks a new one; an expired one is replaced.
Invite(s, t) ==
  /\ invites' = IF s = t \/ (invites[t] # NoInvite /\ ~invites[t].expired)
                THEN invites
                ELSE [invites EXCEPT ![t] = [from |-> s, expired |-> FALSE]]
  /\ UNCHANGED <<groups, membership, nextID>>

Decline(t) ==
  /\ invites' = [invites EXCEPT ![t] = NoInvite]
  /\ UNCHANGED <<groups, membership, nextID>>

\* The inviter's group, made on the spot if there is none yet.
GroupOf(i) == IF membership[i] # NoGroup THEN membership[i] ELSE nextID + 1
RosterOf(i) ==
  IF membership[i] # NoGroup
  THEN groups[membership[i]]
  ELSE [leader |-> i, members |-> {i}]

HasRoom(i) == RosterOf(i).members # {} /\ Cardinality(RosterOf(i).members) < maxMembers

\* The invitation is used up whatever the outcome, and a group made for it stays
\* when it turns out to be full.
Accept(t) ==
  LET i == invites[t].from
      g == GroupOf(i)
      roster == RosterOf(i)
      joined == IF HasRoom(i) THEN {t} ELSE {}
  IN /\ invites' = [invites EXCEPT ![t] = NoInvite]
     /\ IF invites[t] = NoInvite \/ invites[t].expired \/ membership[t] # NoGroup
        THEN UNCHANGED <<groups, membership, nextID>>
        ELSE /\ g \in GroupIds
             /\ nextID' = IF membership[i] = NoGroup THEN g ELSE nextID
             /\ groups' = [groups EXCEPT ![g] =
                  [leader |-> roster.leader, members |-> roster.members \cup joined]]
             /\ membership' = [m \in Session |->
                  IF m \in {i} \cup joined THEN g ELSE membership[m]]

\* The group goes with its leader, or when one member would be left.
Dissolves(s, g) ==
  groups[g].leader = s \/ Cardinality(groups[g].members \ {s}) <= 1

Without(s, g) ==
  IF Dissolves(s, g)
  THEN Absent
  ELSE [leader |-> groups[g].leader, members |-> groups[g].members \ {s}]

\* Mutant: the members of a dissolved group keep their membership.
MutLeave(s) ==
  LET g == membership[s]
  IN /\ IF g = NoGroup
        THEN UNCHANGED <<groups, membership>>
        ELSE /\ groups' = [groups EXCEPT ![g] = Without(s, g)]
             /\ membership' = [membership EXCEPT ![s] = NoGroup]
     /\ UNCHANGED <<invites, nextID>>

Leave(s) ==
  LET g == membership[s]
  IN /\ IF g = NoGroup
        THEN UNCHANGED <<groups, membership>>
        ELSE /\ groups' = [groups EXCEPT ![g] = Without(s, g)]
             /\ membership' = [m \in Session |->
                  IF m = s \/ (Dissolves(s, g) /\ m \in groups[g].members)
                  THEN NoGroup ELSE membership[m]]
     /\ UNCHANGED <<invites, nextID>>

Tick ==
  /\ \E t \in Session : invites[t].expired
  /\ invites' = [t \in Session |-> IF invites[t].expired THEN NoInvite ELSE invites[t]]
  /\ UNCHANGED <<groups, membership, nextID>>

ForgetSession(s) ==
  /\ invites' = [t \in Session |->
       IF t = s \/ invites[t].from = s THEN NoInvite ELSE invites[t]]
  /\ UNCHANGED <<groups, membership, nextID>>

(***************************************************************************)
(* The commands of a session, from chat or OpGroupResponse.                *)
(***************************************************************************)
\* The packet's endpoint leads to a live session, whose worker is free.
Ready(s) == s \in live /\ handler[s] = Idle

\* /invite looks the target up by name...
InviteCommand(s, t) ==
  /\ Ready(s) /\ t \in live
  /\ handler' = [handler EXCEPT ![s] = [pc |-> "invite", with |-> t]]
  /\ UNCHANGED <<live, gmVars, leaving>>

\* ... and records the invitation.
InviteTarget(s) ==
  /\ handler[s].pc = "invite"
  /\ Invite(s, handler[s].with)
  /\ handler' = [handler EXCEPT ![s] = Idle]
  /\ UNCHANGED <<live, leaving>>

\* groupAccept: InviteFor, then the inviter must be online, then Accept.
AcceptCommand(s) ==
  /\ Ready(s) /\ invites[s] # NoInvite
  /\ handler' = [handler EXCEPT ![s] = [pc |-> "check", with |-> invites[s].from]]
  /\ UNCHANGED <<live, gmVars, leaving>>

InviterOnline(s) ==
  /\ handler[s].pc = "check" /\ handler[s].with \in live
  /\ handler' = [handler EXCEPT ![s].pc = "accept"]
  /\ UNCHANGED <<live, gmVars, leaving>>

InviterGone(s) ==
  /\ handler[s].pc = "check" /\ handler[s].with \notin live
  /\ Decline(s)
  /\ handler' = [handler EXCEPT ![s] = Idle]
  /\ UNCHANGED <<live, leaving>>

AcceptInvite(s) ==
  /\ handler[s].pc = "accept"
  /\ Accept(s)
  /\ handler' = [handler EXCEPT ![s] = Idle]
  /\ UNCHANGED <<live, leaving>>

DeclineCommand(s) ==
  /\ Ready(s) /\ invites[s] # NoInvite
  /\ Decline(s)
  /\ UNCHANGED <<live, handler, leaving>>

LeaveCommand(s) ==
  /\ Ready(s) /\ membership[s] # NoGroup
  /\ Leave(s)
  /\ UNCHANGED <<live, handler, leaving>>

(***************************************************************************)
(* Departures, and time.                                                   *)
(***************************************************************************)
MayDepart(s) ==
  /\ s \in live /\ leaving[s] = <<>>
  /\ Cardinality({t \in Session : t \notin live \/ leaving[t] # <<>>}) < MaxGone

\* OpDisconnect, the stale timeout and a kick call Leave before RemoveSession.
\* They may find the session's own worker inside a command.
Depart(s) ==
  /\ MayDepart(s)
  /\ leaving' = [leaving EXCEPT ![s] = <<"leave", "remove", "forget">>]
  /\ UNCHANGED <<live, gmVars, handler>>

\* An eviction has removed the session already when its cleanup starts.
Evict(s) ==
  /\ MayDepart(s)
  /\ live' = live \ {s}
  /\ leaving' = [leaving EXCEPT ![s] = <<"leave", "forget">>]
  /\ UNCHANGED <<gmVars, handler>>

DepartStep(s) ==
  /\ leaving[s] # <<>>
  /\ leaving' = [leaving EXCEPT ![s] = Tail(@)]
  /\ \/ Head(leaving[s]) = "leave" /\ Leave(s) /\ UNCHANGED live
     \/ Head(leaving[s]) = "remove" /\ live' = live \ {s} /\ UNCHANGED gmVars
     \/ Head(leaving[s]) = "forget" /\ ForgetSession(s) /\ UNCHANGED live
  /\ UNCHANGED handler

\* The time to live of an invitation is over.
Expire(t) ==
  /\ invites[t] # NoInvite /\ ~invites[t].expired
  /\ invites' = [invites EXCEPT ![t] = [from |-> @.from, expired |-> TRUE]]
  /\ UNCHANGED <<live, groups, membership, nextID, handler, leaving>>

Next ==
  /\ \/ \E s \in Session :
          \/ \E t \in Session : InviteCommand(s, t)
          \/ InviteTarget(s)
          \/ AcceptCommand(s)
          \/ InviterOnline(s)
          \/ InviterGone(s)
          \/ AcceptInvite(s)
          \/ DeclineCommand(s)
          \/ LeaveCommand(s)
          \/ Depart(s)
          \/ Evict(s)
          \/ DepartStep(s)
          \/ Expire(s)
     \/ Tick /\ UNCHANGED <<live, handler, leaving>>
  /\ UNCHANGED maxMembers

Spec == Init /\ [][Next]_vars
-----------------------------------------------------------------------------
(***************************************************************************)
(* Properties.                                                             *)
(***************************************************************************)

\* Types; an invitation is from another session, and a group that exists has
\* an id that was handed out.
TypeOK ==
  /\ live \subseteq Session
  /\ groups \in [GroupIds -> [leader: Session \cup {0}, members: SUBSET Session]]
  /\ membership \in [Session -> GroupIds \cup {NoGroup}]
  /\ nextID \in 0 .. MaxGroups
  /\ maxMembers \in Limits
  /\ invites \in [Session -> [from: Session \cup {0}, expired: BOOLEAN]]
  /\ handler \in [Session -> [pc: {"idle", "invite", "check", "accept"},
                              with: Session \cup {0}]]
  /\ leaving \in [Session -> Seq({"leave", "remove", "forget"})]
  /\ \A g \in GroupIds : groups[g].members # {} => g <= nextID
  /\ \A t \in Session : invites[t] # NoInvite => invites[t].from \in Session \ {t}
  /\ \A s \in Session : handler[s].pc = "invite" => handler[s].with \in Session

\* The two maps agree: the group a session is said to be in lists it, and a
\* group lists only sessions said to be in it.  A session left in a dissolved
\* group could join no other; one listed in two would be spared by both groups'
\* friendly fire rule.
RosterExact ==
  /\ \A s \in Session : membership[s] # NoGroup => s \in groups[membership[s]].members
  /\ \A g \in GroupIds : \A s \in groups[g].members : membership[s] = g

\* A group that exists is led by one of its members: it ends with its leader,
\* whoever accepts, leaves or is thrown out meanwhile.
LedByMember ==
  \A g \in GroupIds : groups[g].members # {} => groups[g].leader \in groups[g].members

\* A party is never larger than the limit, and never a party of one (unless
\* the limit itself is one), although accepts race.
SizeBounds ==
  \A g \in GroupIds :
    /\ Cardinality(groups[g].members) <= maxMembers
    /\ maxMembers > 1 => Cardinality(groups[g].members) # 1

\* The parties as a whole: the two maps agree, a party has its leader, and its
\* size is within bounds, in every interleaving of commands and departures.
PartiesSound == RosterExact /\ LedByMember /\ SizeBounds
=============================================================================
