---------------------------- MODULE MpeOwnership ----------------------------
(***************************************************************************)
(* Which identity a Note Off releases, and how far a member channel is     *)
(* bent: ElectryAudioProcessor's owner queues, MPE zones and pitch wheels  *)
(* (recordNoteOwnership, takeNoteOwnership, dispatchHostNoteOff,           *)
(* processMpeController, dispatchPitchWheel, refreshMpePitchBend).         *)
(*                                                                         *)
(* A zone message is one step here; the bytes that JUCE's RPN detector     *)
(* assembles and the way one zone shrinks the other are JUCE's.  Pitch is  *)
(* counted in units: a wheel stands at a number of units and a range       *)
(* multiplies it.                                                          *)
(***************************************************************************)
EXTENDS Naturals, FiniteSets, FiniteSetsExt, SequencesExt

CONSTANTS Notes,        \* playable keys
          Channels,     \* MIDI channels in use, of 1 .. 16
          Layouts,      \* zone layouts: the members of the lower and upper zone
          Wheel,        \* wheel positions; 0 is the centre
          Ranges,       \* bend ranges; DefaultRange is a new zone's
          DefaultRange,
          OwnersPerNote, \* maximumOutstandingOwnersPerNote
          Setups        \* what a host makes of these, see Setup

Zones == {"lower", "upper"}
Legacy == 0   \* legacyExpressionId
Editor == 0   \* the channel the editor's own notes carry

ASSUME ChannelAssumption == Channels \subseteq 1 .. 16
ASSUME LayoutAssumption ==
    /\ Layouts \subseteq [Zones -> SUBSET Channels]
    /\ [z \in Zones |-> {}] \in Layouts
    /\ \A l \in Layouts :
          /\ l["lower"] \cap l["upper"] = {}
          /\ l["lower"] # {} => 1 \notin l["lower"] \cup l["upper"]
          /\ l["upper"] # {} => 16 \notin l["lower"] \cup l["upper"]
ASSUME QueueAssumption == IsFiniteSet(Notes) /\ OwnersPerNote \in Nat
ASSUME RangeAssumption ==
    /\ Wheel \subseteq Nat /\ 0 \in Wheel
    /\ Ranges \subseteq Nat /\ DefaultRange \in Ranges

\* A host's layouts and ranges, and a bound: its keys down at one time.
Setup == [layouts : SUBSET Layouts, ranges : SUBSET Ranges, down : Nat]
ASSUME SetupAssumption == \A h \in Setups : h \in Setup

VARIABLES setup,      \* the host's, of Setups
          layout,     \* mpeZoneLayout: each zone's member channels
          memberRange, masterRange,   \* per zone, the exact ranges
          bends,      \* midiPitchBends: each channel's wheel
          owners,     \* outstandingNoteOwners: per key, oldest first
          totals,     \* outstandingMpeChannelNotes
          held,       \* what the performer was told: per key and identity
          target, masterTarget, current, \* the engines' expression bends
          globalBend, \* the bend of every string
          fingers,    \* the players: identities of the keys down, per channel
          stale       \* a key is down that the queues no longer account for

zoneVars == <<setup, layout, memberRange, masterRange>>
ownerVars == <<owners, totals, held, fingers, stale>>
engineVars == <<target, masterTarget, current>>
mpeVars == <<zoneVars, bends, ownerVars, engineVars, globalBend>>

Identities == Channels \union {Legacy}
Sources == Channels \union {Editor}

Master == [z \in Zones |-> IF z = "lower" THEN 1 ELSE 16]

ZoneOf(c) == {z \in Zones : c \in layout[z]}

IdentityFor(c) == IF ZoneOf(c) # {} THEN c ELSE Legacy

MpeInit ==
    /\ setup \in Setups
    /\ layout = [z \in Zones |-> {}]
    /\ memberRange = [z \in Zones |-> DefaultRange]
    /\ masterRange = [z \in Zones |-> DefaultRange]
    /\ bends = [c \in Channels |-> 0]
    /\ owners = [n \in Notes |-> <<>>]
    /\ totals = [c \in Channels |-> 0]
    /\ held = [n \in Notes |-> [i \in Identities |-> 0]]
    /\ target = [c \in Channels |-> 0]
    /\ masterTarget = [c \in Channels |-> 0]
    /\ current = [c \in Channels |-> 0]
    /\ globalBend = 0
    /\ fingers = [n \in Notes |-> [s \in Sources |-> <<>>]]
    /\ stale = FALSE

-----------------------------------------------------------------------------
(* refreshMpePitchBend: what the engines are told of one channel, under    *)
(* given zones, ranges and wheels.  A channel is a member of at most one.  *)

MemberBend(l, ranges, b, c) ==
    LET of(z) == IF c \in l[z] THEN b[c] * ranges[z] ELSE 0
    IN  of("lower") + of("upper")

MasterBend(l, ranges, b, c) ==
    LET of(z) == IF c \in l[z] /\ Master[z] \in Channels
                 THEN b[Master[z]] * ranges[z] ELSE 0
    IN  of("lower") + of("upper")

\* The channels in cs are refreshed from the next zones, ranges and wheels.
Refresh(cs) ==
    /\ target' = [c \in Channels |->
            IF c \in cs THEN MemberBend(layout', memberRange', bends', c)
            ELSE target[c]]
    /\ masterTarget' = [c \in Channels |->
            IF c \in cs THEN MasterBend(layout', masterRange', bends', c)
            ELSE masterTarget[c]]

-----------------------------------------------------------------------------
(* Note Ons.                                                               *)

KeysDown == MapThenSumSet(
    LAMBDA n : MapThenSumSet(LAMBDA s : Len(fingers[n][s]), Sources), Notes)

PressFinger(n, s, i) ==
    /\ KeysDown < setup.down
    /\ fingers' = [fingers EXCEPT ![n][s] = Append(@, i)]

\* A full queue drops the attack: nothing sounds that no Note Off could lift.
DropNoteOn(n, s, i) ==
    /\ Len(owners[n]) = OwnersPerNote
    /\ PressFinger(n, s, i)
    /\ stale' = TRUE
    /\ UNCHANGED <<zoneVars, bends, owners, totals, held, engineVars,
                   globalBend>>

\* recordNoteOwnership, then the attack.  A member's first finger starts on
\* the channel's own bend, whatever the last finger's tail was left with.
AcceptNoteOn(n, s, i) ==
    /\ Len(owners[n]) < OwnersPerNote
    /\ PressFinger(n, s, i)
    /\ owners' = [owners EXCEPT ![n] = Append(@, [channel |-> s, id |-> i])]
    /\ held' = [held EXCEPT ![n][i] = @ + 1]
    /\ UNCHANGED <<zoneVars, bends, globalBend, stale>>
    /\ IF i = Legacy THEN UNCHANGED <<totals, engineVars>>
       ELSE /\ totals' = [totals EXCEPT ![s] = @ + 1]
            /\ IF totals[s] > 0 THEN UNCHANGED engineVars
               ELSE /\ Refresh({s})
                    /\ current' = [current EXCEPT ![s] = target'[s]]

NoteOn(n, s) ==
    LET i == IF s = Editor THEN Legacy ELSE IdentityFor(s)
    IN  DropNoteOn(n, s, i) \/ AcceptNoteOn(n, s, i)

-----------------------------------------------------------------------------
(* Note Offs.                                                              *)

\* The positions of a queue that a source, or an identity, holds.
OfSource(q, s) == {k \in DOMAIN q : q[k].channel = s}
OfIdentity(q, i) == {k \in DOMAIN q : q[k].id = i}

\* Mutant: a release nobody owns takes whatever owner there is.
CandidatesAny(n, s, allowAnyLegacy) == DOMAIN owners[n]

\* takeNoteOwnership: the queue position of the owner a release of this
\* source takes; any plain owner will do for a channel that is plain now.
Candidates(n, s, allowAnyLegacy) ==
    LET own == OfSource(owners[n], s)
        plain == OfIdentity(owners[n], Legacy)
    IN  IF own # {} THEN own ELSE IF allowAnyLegacy THEN plain ELSE {}

AllowsAnyLegacy(s) == s = Editor \/ IdentityFor(s) = Legacy

LiftFinger(n, s) ==
    fingers' = [fingers EXCEPT ![n][s] = IF @ = <<>> THEN <<>> ELSE Tail(@)]

AllUp(f) == \A n \in Notes, s \in Sources : f[n][s] = <<>>

\* A release nobody owns: a duplicate, or of a key forgotten since.
UnmatchedNoteOff(n, s) ==
    /\ Candidates(n, s, AllowsAnyLegacy(s)) = {}
    /\ LiftFinger(n, s)
    /\ stale' = (stale /\ ~AllUp(fingers'))
    /\ UNCHANGED <<zoneVars, bends, owners, totals, held, engineVars,
                   globalBend>>

\* Mutant: the total that counts is the one of the channel's present role.
MatchedNoteOffByRole(n, s) ==
    LET ks == Candidates(n, s, AllowsAnyLegacy(s)) IN
    /\ ks # {}
    /\ LET k == Min(ks)
           i == owners[n][k].id
           role == IF s = Editor THEN Legacy ELSE IdentityFor(s)
           last == role # Legacy /\ totals[role] = 1
       IN  /\ owners' = [owners EXCEPT ![n] = RemoveAt(@, k)]
           /\ held' = [held EXCEPT ![n][i] = @ - 1]
           /\ totals' = IF role = Legacy \/ totals[role] = 0 THEN totals
                        ELSE [totals EXCEPT ![role] = @ - 1]
           /\ bends' = IF last THEN [bends EXCEPT ![role] = 0] ELSE bends
           /\ LiftFinger(n, s)
           /\ stale' = ((stale \/ owners[n][k].channel # s) /\ ~AllUp(fingers'))
    /\ UNCHANGED <<zoneVars, engineVars, globalBend>>

\* The oldest candidate is released under the identity it was struck with.
\* The last finger of a member channel takes its wheel back to the centre,
\* and leaves what still sounds of it where it is.
MatchedNoteOff(n, s) ==
    LET ks == Candidates(n, s, AllowsAnyLegacy(s)) IN
    /\ ks # {}
    /\ LET k == Min(ks)
           i == owners[n][k].id
           last == i # Legacy /\ totals[i] = 1
       IN  /\ owners' = [owners EXCEPT ![n] = RemoveAt(@, k)]
           /\ held' = [held EXCEPT ![n][i] = @ - 1]
           /\ totals' = IF i = Legacy THEN totals
                        ELSE [totals EXCEPT ![i] = @ - 1]
           /\ bends' = IF last THEN [bends EXCEPT ![i] = 0] ELSE bends
           /\ LiftFinger(n, s)
           /\ stale' = ((stale \/ owners[n][k].channel # s) /\ ~AllUp(fingers'))
    /\ UNCHANGED <<zoneVars, engineVars, globalBend>>

NoteOff(n, s) == UnmatchedNoteOff(n, s) \/ MatchedNoteOff(n, s)

-----------------------------------------------------------------------------
(* Zones and wheels.                                                       *)

\* Mutant: only a changed layout is noticed, not a range set back to default.
ConfigureZoneQuietly(z, l) ==
    /\ l \in setup.layouts /\ layout' = l
    /\ memberRange' = [memberRange EXCEPT ![z] = DefaultRange]
    /\ masterRange' = [masterRange EXCEPT ![z] = DefaultRange]
    /\ UNCHANGED <<setup, bends, ownerVars, current, globalBend>>
    /\ zoneVars' # zoneVars
    /\ IF l = layout THEN UNCHANGED <<target, masterTarget>>
       ELSE Refresh(Channels)

\* A zone configuration message; its ranges return to their defaults.
ConfigureZone(z, l) ==
    /\ l \in setup.layouts /\ layout' = l
    /\ memberRange' = [memberRange EXCEPT ![z] = DefaultRange]
    /\ masterRange' = [masterRange EXCEPT ![z] = DefaultRange]
    /\ UNCHANGED <<setup, bends, ownerVars, current, globalBend>>
    /\ zoneVars' # zoneVars
    /\ Refresh(Channels)

SetMemberRange(z, r) ==
    /\ layout[z] # {} /\ r \in setup.ranges \ {memberRange[z]}
    /\ memberRange' = [memberRange EXCEPT ![z] = r]
    /\ UNCHANGED <<setup, layout, masterRange, bends, ownerVars, current,
                   globalBend>>
    /\ Refresh(Channels)

SetMasterRange(z, r) ==
    /\ r \in setup.ranges \ {masterRange[z]}
    /\ masterRange' = [masterRange EXCEPT ![z] = r]
    /\ UNCHANGED <<setup, layout, memberRange, bends, ownerVars, current,
                   globalBend>>
    /\ Refresh(Channels)

ActiveMaster(c) == \E z \in Zones : layout[z] # {} /\ Master[z] = c

\* Mutant: a master's wheel is told to the engines for the master alone.
PitchWheelOfOne(c, w) ==
    /\ bends' = [bends EXCEPT ![c] = w]
    /\ UNCHANGED <<zoneVars, ownerVars, current>>
    /\ IF ZoneOf(c) = {} /\ ~ActiveMaster(c)
       THEN globalBend' = w /\ UNCHANGED <<target, masterTarget>>
       ELSE UNCHANGED globalBend /\ Refresh({c})

\* dispatchPitchWheel: a member, a zone's master, or the whole instrument.
PitchWheel(c, w) ==
    /\ bends' = [bends EXCEPT ![c] = w]
    /\ UNCHANGED <<zoneVars, ownerVars, current>>
    /\ IF ZoneOf(c) = {} /\ ~ActiveMaster(c)
       THEN globalBend' = w /\ UNCHANGED <<target, masterTarget>>
       ELSE /\ UNCHANGED globalBend
            /\ Refresh(IF ZoneOf(c) # {} THEN {c} ELSE Channels)

\* The engines' smoothing reaches the target.
Glide(c) ==
    /\ current[c] # target[c]
    /\ current' = [current EXCEPT ![c] = target[c]]
    /\ UNCHANGED <<zoneVars, bends, ownerVars, target, masterTarget,
                   globalBend>>

-----------------------------------------------------------------------------
(* Releases and resets.                                                    *)

\* clearMpeNoteOwnership: the members that held notes return to the centre.
ClearOwnership ==
    /\ owners' = [n \in Notes |-> <<>>]
    /\ totals' = [c \in Channels |-> 0]
    /\ held' = [n \in Notes |-> [i \in Identities |-> 0]]
    /\ stale' = ~AllUp(fingers)
    /\ UNCHANGED fingers

ClearedBends == [c \in Channels |-> IF totals[c] > 0 THEN 0 ELSE bends[c]]

\* CC123: the strings ring out where they are.
ReleasePlayableNotes ==
    /\ ClearOwnership
    /\ bends' = ClearedBends
    /\ UNCHANGED <<zoneVars, engineVars, globalBend>>

\* CC120: the engines are reset, then told the remaining bends.
AllSoundOff ==
    /\ ClearOwnership
    /\ bends' = ClearedBends
    /\ current' = target
    /\ UNCHANGED <<zoneVars, globalBend>>
    /\ Refresh(Channels)

\* The answer to a panic resets the engines and refreshes nothing.
Panic ==
    /\ ClearOwnership
    /\ bends' = ClearedBends
    /\ current' = target
    /\ UNCHANGED <<zoneVars, target, masterTarget, globalBend>>

\* CC121.
ResetControllers ==
    /\ bends' = [c \in Channels |-> 0]
    /\ globalBend' = 0
    /\ UNCHANGED <<zoneVars, ownerVars, current>>
    /\ Refresh(Channels)

\* prepareToPlay and releaseResources leave wheels and engines centred.
Prepare ==
    /\ ClearOwnership
    /\ bends' = [c \in Channels |-> 0]
    /\ globalBend' = 0
    /\ UNCHANGED zoneVars
    /\ Refresh(Channels)
    /\ current' = target'

MpeNext ==
    \/ \E n \in Notes, s \in Sources : NoteOn(n, s) \/ NoteOff(n, s)
    \/ \E z \in Zones, l \in Layouts : ConfigureZone(z, l)
    \/ \E z \in Zones, r \in Ranges : SetMemberRange(z, r) \/ SetMasterRange(z, r)
    \/ \E c \in Channels, w \in Wheel : PitchWheel(c, w)
    \/ \E c \in Channels : Glide(c)
    \/ ReleasePlayableNotes \/ AllSoundOff \/ Panic
    \/ ResetControllers \/ Prepare

MpeSpec == MpeInit /\ [][MpeNext]_mpeVars

-----------------------------------------------------------------------------
(* Properties.                                                             *)

\* The owners in all the queues that a channel holds as a member.
OwnersOf(c) ==
    {p \in Notes \X (1 .. OwnersPerNote) :
        p[2] \in OfIdentity(owners[p[1]], c)}

\* Of how many of its source's owners this one is the last.
Rank(q, k) == Cardinality({j \in 1 .. k : q[j].channel = q[k].channel})

\* A channel's total is the number of its owners in all the queues, through
\* layout changes, unmatched releases and full queues: it decides when the
\* channel's wheel is centred (outstandingMpeChannelNotes).
TotalsCountOwners ==
    \A c \in Channels : totals[c] = Cardinality(OwnersOf(c))

\* What the performer holds is what the queues can still release, identity
\* by identity: no string sounds that no later Note Off can address
\* (batchOrDispatchNoteOn's remark).
EveryHeldNoteHasAnOwner ==
    \A n \in Notes, i \in Identities :
        held[n][i] = Cardinality(OfIdentity(owners[n], i))

\* What the queues record and what the performer holds are the same notes.
OwnersAgree == TotalsCountOwners /\ EveryHeldNoteHasAnOwner

\* A channel owns no more notes of a key than it has fingers on it, so when
\* all keys are up no queue holds an owner: nothing hangs, whatever layouts,
\* duplicates and lost attacks came in between.  As long as no key has been
\* forgotten, each finger's Note Off releases the identity its own Note On was
\* given, even if the layout has changed in between (README: "layout changes
\* retain outstanding Note Off ownership").
NoteOffKeepsIdentity ==
    \A n \in Notes, s \in Sources :
        LET own == OfSource(owners[n], s) IN
        /\ Cardinality(own) <= Len(fingers[n][s])
        /\ ~stale =>
              /\ Cardinality(own) = Len(fingers[n][s])
              /\ \A k \in own : owners[n][k].id
                                   = fingers[n][s][Rank(owners[n], k)]

\* A member channel that holds a note is bent by its own wheel over its
\* zone's own range, and an ex-member not at all.
OwnedBendIsCurrent ==
    \A c \in Channels :
        totals[c] > 0 => target[c] = MemberBend(layout, memberRange, bends, c)

\* Its master's wheel bends it too, over the range of masters.
FollowsMaster(c) ==
    totals[c] > 0 => masterTarget[c] = MasterBend(layout, masterRange, bends, c)

\* The zone's master lets the last of the notes go that it struck when it was
\* a member itself, and its wheel returns to the centre.
MasterLetsGo(c) ==
    \E z \in Zones :
        /\ c \in layout[z] /\ Master[z] \in Channels
        /\ totals[Master[z]] > 0 /\ totals'[Master[z]] = 0

\* Nothing else parts a member that holds a note from its master's wheel: no
\* zone, range, wheel, release or reset (dispatchHostNoteOff centres a wheel
\* and tells the engines nothing of it).
OnlyAReleaseMissesTheMaster ==
    [][\A c \in Channels :
         FollowsMaster(c) => FollowsMaster(c)' \/ MasterLetsGo(c)]_mpeVars

\* The two wheels that bend a member: its own always, and its master's but
\* for that release (refreshMpePitchBend).
OwnedBendsFollow == []OwnedBendIsCurrent /\ OnlyAReleaseMissesTheMaster

=============================================================================
