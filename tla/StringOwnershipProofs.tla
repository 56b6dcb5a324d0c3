------------------------ MODULE StringOwnershipProofs ------------------------
(***************************************************************************)
(* The neck's promises for every number of strings, every tuning and every *)
(* way of playing: no string rings with nobody to stop it; every owner of  *)
(* a pitch is owed a Note Off; while notes come one at a time, and for the *)
(* chords of plain notes without solo masks, the voice's key is down       *)
(* exactly where a finger is; a member channel that plays single notes has *)
(* one finger; where no solo mask refuses a note, the Note Off that lifts  *)
(* a pitch's last finger is its last; and a plain finger leaves a string   *)
(* only for another note there.                                            *)
(***************************************************************************)
EXTENDS StringOwnership, FiniteSetTheorems, SequenceTheorems, TLAPS

(***************************************************************************)
(* What the proofs need of the state's shape.                              *)
(***************************************************************************)
IsOwner(h) == h \in [id : {h.id}, count : Nat]

VoiceOf(id) ==
    [id : {id}, down : BOOLEAN, sustained : BOOLEAN, releasing : BOOLEAN,
     waiting : BOOLEAN, ring : BOOLEAN, repick : BOOLEAN]

IsVoice(v) == v \in VoiceOf(v.id)

IsEngine(e) ==
    /\ e \in [held : {e.held}, voice : {e.voice},
              outstanding : {e.outstanding}, broadcast : {e.broadcast}]
    /\ e.held = [s \in Strings |-> e.held[s]]
    /\ e.voice = [s \in Strings |-> e.voice[s]]
    /\ \A s \in Strings : IsOwner(e.held[s]) /\ IsVoice(e.voice[s])

\* Somebody stops this voice: its key, the pedal, or the hand that damps it.
Attended(v, p) ==
    Active(v) => v.down \/ (v.sustained /\ p) \/ (v.releasing /\ ~v.waiting)

-----------------------------------------------------------------------------
(***************************************************************************)
(* What each step leaves of one voice.                                     *)
(***************************************************************************)

\* A silent string is a voice, and a free string an owner.
LEMMA EmptyString == IsVoice(Silent) /\ IsOwner(Free) /\ ~Active(Silent)
BY DEF IsVoice, VoiceOf, Silent, IsOwner, Free, Active

\* A release ends in silence or in damping, and moves no key.
LEMMA ReleaseIs ==
    ASSUME NEW v, IsVoice(v)
    PROVE  /\ IsVoice(Release(v))
           /\ \/ Release(v) = Silent
              \/ Release(v).id = v.id /\ Release(v).down = v.down
           /\ Active(Release(v)) =>
                Release(v).releasing /\ ~Release(v).waiting
<1> DEFINE calm == [v EXCEPT !.waiting = FALSE, !.repick = FALSE, !.ring = FALSE]
           damped == [calm EXCEPT !.releasing = TRUE, !.sustained = FALSE]
<1>1. /\ calm \in VoiceOf(v.id)
      /\ calm.down = v.down /\ calm.releasing = v.releasing /\ ~calm.waiting
  BY DEF IsVoice, VoiceOf
<1>2. \/ ~Active(v) /\ Release(v) = v
      \/ Release(v) = Silent
      \/ v.releasing /\ Release(v) = calm
      \/ Release(v) = damped
  BY DEF Release
<1> HIDE DEF calm
<1>3. /\ damped \in VoiceOf(v.id)
      /\ damped.down = v.down /\ damped.releasing /\ ~damped.waiting
  BY <1>1 DEF VoiceOf
<1> HIDE DEF damped
<1>4. \A w \in VoiceOf(v.id) : IsVoice(w) /\ w.id = v.id
  BY DEF IsVoice, VoiceOf
<1> QED
  BY <1>1, <1>2, <1>3, <1>4, EmptyString

\* A note that begins takes the voice over, with its key down.
LEMMA BegunIs ==
    ASSUME NEW v, IsVoice(v), NEW id, NEW style, NEW timing
    PROVE  /\ IsVoice(Begun(v, id, style, timing))
           /\ Begun(v, id, style, timing).id = id
           /\ Begun(v, id, style, timing).down = TRUE
<1> DEFINE Taken(w) == w \in VoiceOf(id) /\ w.down = TRUE
<1>1. Taken(Retargeted(v, id))
  BY DEF Retargeted, IsVoice, VoiceOf
<1>2. ASSUME NEW late
      PROVE  Taken(Struck(v, id, late))
  <2>1. CASE v.id = id /\ late # "now"
    <3>1. Struck(v, id, late) =
            [v EXCEPT !.down = TRUE, !.sustained = FALSE, !.waiting = TRUE,
                      !.ring = v.ring \/ ~v.waiting, !.repick = TRUE]
      BY <2>1 DEF Struck
    <3> QED
      BY <2>1, <3>1 DEF IsVoice, VoiceOf
  <2>2. CASE ~(v.id = id /\ late # "now")
    BY <2>2 DEF Struck, IsVoice, VoiceOf
  <2> QED
    BY <2>1, <2>2
<1>3. Taken(Begun(v, id, style, timing))
  BY <1>1, <1>2 DEF Begun
<1> QED
  BY <1>3 DEF IsVoice, VoiceOf

\* A voice told one thing stays a voice.
LEMMA VoiceTold ==
    ASSUME NEW v, IsVoice(v), NEW d \in BOOLEAN
    PROVE  /\ IsVoice([v EXCEPT !.down = d])
           /\ [v EXCEPT !.down = d].id = v.id
           /\ [v EXCEPT !.down = d].down = d
           /\ IsVoice([v EXCEPT !.sustained = d])
           /\ [v EXCEPT !.sustained = d].id = v.id
           /\ [v EXCEPT !.sustained = d].down = v.down
           /\ [v EXCEPT !.sustained = d].sustained = d
           /\ [v EXCEPT !.sustained = d].releasing = v.releasing
           /\ [v EXCEPT !.sustained = d].waiting = v.waiting
BY DEF IsVoice, VoiceOf

\* What a moving member leaves behind is damped, or is not its voice.
LEMMA LeftByIs ==
    ASSUME NEW v, IsVoice(v), NEW id
    PROVE  /\ IsVoice(LeftBy(v, id))
           /\ v.id.expr # id.expr => LeftBy(v, id) = v
           /\ v.id.expr = id.expr =>
                /\ LeftBy(v, id) = Silent \/ LeftBy(v, id).down = FALSE
                /\ Active(LeftBy(v, id)) => /\ LeftBy(v, id).releasing
                                            /\ ~LeftBy(v, id).waiting
<1> DEFINE up == [v EXCEPT !.down = FALSE, !.sustained = FALSE]
<1>1. IsVoice(up) /\ up.down = FALSE
  BY DEF IsVoice, VoiceOf
<1>2. LeftBy(v, id) = IF v.id.expr = id.expr THEN Release(up) ELSE v
  BY DEF LeftBy
<1> HIDE DEF up
<1>3. /\ IsVoice(Release(up))
      /\ Release(up) = Silent \/ Release(up).down = up.down
      /\ Active(Release(up)) => Release(up).releasing /\ ~Release(up).waiting
  BY <1>1, ReleaseIs
<1> QED
  BY <1>1, <1>2, <1>3

\* A lifted finger leaves its string to the pedal or to the damping hand.
LEMMA StoppedIs ==
    ASSUME NEW v, IsVoice(v)
    PROVE  /\ IsVoice(Stopped(v))
           /\ Stopped(v) = Silent \/ Stopped(v).down = FALSE
           /\ Active(Stopped(v)) =>
                \/ Stopped(v).sustained /\ pedal
                \/ Stopped(v).releasing /\ ~Stopped(v).waiting
<1> DEFINE up == [v EXCEPT !.down = FALSE]
           kept == [up EXCEPT !.sustained = TRUE]
<1>1. IsVoice(up) /\ up.down = FALSE
  BY VoiceTold
<1>2. Stopped(v) = IF pedal THEN kept ELSE Release(up)
  BY DEF Stopped
<1> HIDE DEF up
<1>3. IsVoice(kept) /\ kept.down = FALSE /\ kept.sustained = TRUE
  BY <1>1, VoiceTold
<1> HIDE DEF kept
<1>4. /\ IsVoice(Release(up))
      /\ Release(up) = Silent \/ Release(up).down = up.down
      /\ Active(Release(up)) => Release(up).releasing /\ ~Release(up).waiting
  BY <1>1, ReleaseIs
<1> QED
  BY <1>1, <1>2, <1>3, <1>4

\* Owners are counted up and down.
LEMMA OwnersCount ==
    ASSUME NEW h, IsOwner(h), NEW id
    PROVE  /\ IsOwner(OneMore(h, id)) /\ IsOwner(OneLess(h))
           /\ OneMore(h, id).id = id /\ OneMore(h, id).count > 0
           /\ h.count > 1 => OneLess(h).id = h.id /\ OneLess(h).count > 0
           /\ ~(h.count > 1) => OneLess(h) = Free
<1>1. h.count \in Nat
  BY DEF IsOwner
<1>2. /\ IsOwner(OneMore(h, id))
      /\ OneMore(h, id).id = id /\ OneMore(h, id).count > 0
  BY <1>1 DEF OneMore, IsOwner
<1>3. CASE h.count > 1
  BY <1>1, <1>2, <1>3 DEF OneLess, IsOwner
<1>4. CASE ~(h.count > 1)
  BY <1>2, <1>4, EmptyString DEF OneLess
<1> QED
  BY <1>3, <1>4

-----------------------------------------------------------------------------
(***************************************************************************)
(* What each step leaves of the neck.                                      *)
(***************************************************************************)

Revoiced(e, s, w) == [e EXCEPT !.voice[s] = w]

\* One string's voice is replaced.
LEMMA VoiceReplaced ==
    ASSUME NEW e, IsEngine(e), NEW s, NEW w, s \in Strings => IsVoice(w)
    PROVE  LET r == Revoiced(e, s, w) IN
           /\ IsEngine(r) /\ r.held = e.held
           /\ \A t \in Strings : r.voice[t] = IF t = s THEN w ELSE e.voice[t]
<1> DEFINE r == Revoiced(e, s, w)
<1>1. /\ r.held = e.held
      /\ r.voice = [e.voice EXCEPT ![s] = w]
      /\ r \in [held : {r.held}, voice : {r.voice},
                outstanding : {r.outstanding}, broadcast : {r.broadcast}]
  BY DEF IsEngine, Revoiced
<1> HIDE DEF r
<1>2. /\ r.voice = [t \in Strings |-> r.voice[t]]
      /\ \A t \in Strings : r.voice[t] = IF t = s THEN w ELSE e.voice[t]
  BY <1>1 DEF IsEngine
<1>3. IsEngine(r)
  BY <1>1, <1>2 DEF IsEngine
<1> QED
  BY <1>1, <1>2, <1>3 DEF r

\* A moving member leaves every other string it held.
LEMMA MemberMovesIs ==
    ASSUME NEW e, IsEngine(e), NEW id, NEW s
    PROVE  LET r == MemberMoves(e, id, s)
               left(t) == t # s /\ Leaves(e, id, t)
           IN  /\ IsEngine(r)
               /\ \A t \in Strings :
                     /\ r.held[t] = IF left(t) THEN Free ELSE e.held[t]
                     /\ r.voice[t] = IF left(t) THEN LeftBy(e.voice[t], id)
                                     ELSE e.voice[t]
<1> DEFINE left(t) == t # s /\ Leaves(e, id, t)
           r == MemberMoves(e, id, s)
           H == [t \in Strings |-> IF left(t) THEN Free ELSE e.held[t]]
           V == [t \in Strings |-> IF left(t) THEN LeftBy(e.voice[t], id)
                                   ELSE e.voice[t]]
<1>1. r = [e EXCEPT !.held = H, !.voice = V]
  BY DEF MemberMoves
<1> HIDE DEF left, r
<1>2. /\ \A t \in Strings : H[t] = IF left(t) THEN Free ELSE e.held[t]
      /\ \A t \in Strings : V[t] = IF left(t) THEN LeftBy(e.voice[t], id)
                                    ELSE e.voice[t]
      /\ H = [t \in Strings |-> H[t]] /\ V = [t \in Strings |-> V[t]]
  OBVIOUS
<1> HIDE DEF H, V
<1>3. /\ r.held = H /\ r.voice = V
      /\ r \in [held : {r.held}, voice : {r.voice},
                outstanding : {r.outstanding}, broadcast : {r.broadcast}]
  BY <1>1 DEF IsEngine
<1>4. \A t \in Strings : IsOwner(H[t]) /\ IsVoice(V[t])
  <2> SUFFICES ASSUME NEW t \in Strings
               PROVE  IsOwner(H[t]) /\ IsVoice(V[t])
    OBVIOUS
  <2>1. IsOwner(e.held[t]) /\ IsVoice(e.voice[t])
    BY DEF IsEngine
  <2>2. H[t] = Free \/ H[t] = e.held[t]
    BY <1>2
  <2>3. V[t] = LeftBy(e.voice[t], id) \/ V[t] = e.voice[t]
    BY <1>2
  <2>4. IsVoice(LeftBy(e.voice[t], id))
    BY <2>1, LeftByIs
  <2> QED
    BY <2>1, <2>2, <2>3, <2>4, EmptyString
<1>5. IsEngine(r)
  BY <1>2, <1>3, <1>4 DEF IsEngine
<1> QED
  BY <1>2, <1>3, <1>5 DEF r, left

\* The string that takes the note counts one owner more.
LEMMA BindOwnerIs ==
    ASSUME NEW e, IsEngine(e), NEW id, NEW s
    PROVE  LET r == BindOwner(e, id, s) IN
           /\ IsEngine(r) /\ r.voice = e.voice
           /\ \A t \in Strings : r.held[t] = IF t = s THEN OneMore(e.held[t], id)
                                             ELSE e.held[t]
<1> DEFINE r == BindOwner(e, id, s)
           both == IF Holders(e, id) = {} THEN FALSE
                   ELSE Holders(e, id) \ {s} # {} \/ e.broadcast[id]
           O == [e.outstanding EXCEPT ![id] = @ + 1]
           B == [e.broadcast EXCEPT ![id] = both]
           H == [e.held EXCEPT ![s] = OneMore(@, id)]
<1>1. r = [e EXCEPT !.outstanding = O, !.broadcast = B, !.held = H]
  BY DEF BindOwner, IsEngine
<1>2. /\ \A t \in Strings : H[t] = IF t = s THEN OneMore(e.held[t], id)
                                    ELSE e.held[t]
      /\ H = [t \in Strings |-> H[t]]
  BY DEF IsEngine
<1> HIDE DEF r, O, B, H
<1>3. /\ r.held = H /\ r.voice = e.voice
      /\ r \in [held : {r.held}, voice : {r.voice},
                outstanding : {r.outstanding}, broadcast : {r.broadcast}]
  BY <1>1 DEF IsEngine
<1>4. \A t \in Strings : IsOwner(H[t])
  BY <1>2, OwnersCount DEF IsEngine
<1>5. IsEngine(r)
  BY <1>2, <1>3, <1>4 DEF IsEngine
<1> QED
  BY <1>2, <1>3, <1>5 DEF r

\* What one note does to every string: the string it is played on takes it,
\* the other strings of its member are left, and the rest are untouched.
PlayedHeld(e, id, s, t) ==
    IF t = s THEN OneMore(e.held[t], id)
    ELSE IF Leaves(e, id, t) THEN Free ELSE e.held[t]

PlayedVoice(e, id, s, t, w) ==
    IF t = s THEN w
    ELSE IF Leaves(e, id, t) THEN LeftBy(e.voice[t], id) ELSE e.voice[t]

\* A voice that has just begun to sound a pitch, its key down.
Sounds(w, id) == IsVoice(w) /\ w.id = id /\ w.down = TRUE

TakesNote(e, id, s, r) ==
    /\ IsEngine(r)
    /\ \E w : /\ s \in Strings => Sounds(w, id)
             /\ \A t \in Strings :
                   /\ r.held[t] = PlayedHeld(e, id, s, t)
                   /\ r.voice[t] = PlayedVoice(e, id, s, t, w)

\* A string struck again, every finger where it was.
IsRepicked(e, s, r) ==
    /\ IsEngine(r) /\ r.held = e.held
    /\ \E w : /\ Sounds(w, e.held[s].id)
             /\ \A t \in Strings :
                   r.voice[t] = IF t = s THEN w ELSE e.voice[t]

\* The voice's key is down because the string that takes the note has an owner.
LEMMA PlayOnIs ==
    ASSUME NEW e, IsEngine(e), NEW id, NEW s, NEW timing
    PROVE  TakesNote(e, id, s, TakeNote(e, id, s, timing))
<1> DEFINE begun == Begun(e.voice[s], id, playStyle, timing)
           struck == Revoiced(e, s, begun)
           moved == MemberMoves(struck, id, s)
           owned == BindOwner(moved, id, s)
           w == [owned.voice[s] EXCEPT !.down = owned.held[s].count > 0]
           r == Revoiced(owned, s, w)
<1>1. TakeNote(e, id, s, timing) = r
  BY DEF TakeNote, PlayOn, Revoiced
<1>2. s \in Strings => Sounds(begun, id)
  <2> SUFFICES ASSUME s \in Strings PROVE Sounds(begun, id)
    OBVIOUS
  <2>1. IsVoice(e.voice[s])
    BY DEF IsEngine
  <2>2. /\ IsVoice(Begun(e.voice[s], id, playStyle, timing))
        /\ Begun(e.voice[s], id, playStyle, timing).id = id
        /\ Begun(e.voice[s], id, playStyle, timing).down = TRUE
    BY <2>1, BegunIs, Zenon
  <2> QED
    BY <2>2 DEF Sounds
<1> HIDE DEF begun
<1>3. /\ IsEngine(struck) /\ struck.held = e.held
      /\ \A t \in Strings : struck.voice[t] = IF t = s THEN begun ELSE e.voice[t]
  BY <1>2, VoiceReplaced DEF Sounds
<1> HIDE DEF struck
<1>4. /\ IsEngine(moved)
      /\ \A t \in Strings :
            /\ moved.held[t] = IF t # s /\ Leaves(struck, id, t) THEN Free
                               ELSE struck.held[t]
            /\ moved.voice[t] = IF t # s /\ Leaves(struck, id, t)
                                THEN LeftBy(struck.voice[t], id)
                                ELSE struck.voice[t]
  BY <1>3, MemberMovesIs
<1> HIDE DEF moved
<1>5. /\ IsEngine(owned) /\ owned.voice = moved.voice
      /\ \A t \in Strings : owned.held[t] = IF t = s THEN OneMore(moved.held[t], id)
                                            ELSE moved.held[t]
  BY <1>4, BindOwnerIs
<1> HIDE DEF owned
<1>6. \A t \in Strings : Leaves(struck, id, t) <=> Leaves(e, id, t)
  BY <1>3 DEF Leaves
<1>7. \A t \in Strings : owned.held[t] = PlayedHeld(e, id, s, t)
  BY <1>3, <1>4, <1>5, <1>6 DEF PlayedHeld
<1>8. s \in Strings => Sounds(w, id)
  <2> SUFFICES ASSUME s \in Strings
               PROVE  Sounds(w, id)
    OBVIOUS
  <2>1. owned.voice[s] = begun
    BY <1>3, <1>4, <1>5
  <2>2. owned.held[s] = OneMore(e.held[s], id)
    BY <1>7 DEF PlayedHeld
  <2>3. owned.held[s].count > 0
    <3>1. IsOwner(e.held[s])
      BY DEF IsEngine
    <3> QED
      BY <2>2, <3>1, OwnersCount
  <2>4. w = [begun EXCEPT !.down = TRUE]
    BY <2>1, <2>3
  <2> HIDE DEF w
  <2> QED
    BY <1>2, <2>4, VoiceTold DEF Sounds
<1> HIDE DEF w
<1>9. /\ IsEngine(r) /\ r.held = owned.held
      /\ \A t \in Strings : r.voice[t] = IF t = s THEN w ELSE owned.voice[t]
  <2>1. IsEngine(owned) /\ (s \in Strings => IsVoice(w))
    BY <1>5, <1>8 DEF Sounds
  <2> QED
    BY <2>1, VoiceReplaced
<1> HIDE DEF r
<1>10. \A t \in Strings : r.voice[t] = PlayedVoice(e, id, s, t, w)
  BY <1>3, <1>4, <1>5, <1>6, <1>9 DEF PlayedVoice
<1>11. TakesNote(e, id, s, r)
  BY <1>7, <1>8, <1>9, <1>10 DEF TakesNote
<1> QED
  BY <1>1, <1>11, Zenon

\* A repick strikes the string again and moves no finger.
LEMMA RepickIs ==
    ASSUME NEW e, IsEngine(e), NEW s \in Strings, e.held[s].count > 0,
           NEW timing
    PROVE  IsRepicked(e, s, PlayOn(e, e.held[s].id, s, timing, FALSE))
<1> DEFINE id == e.held[s].id
           style == IF playStyle = "Hammer" THEN "Sustain" ELSE playStyle
           begun == Begun(e.voice[s], id, style, timing)
           struck == Revoiced(e, s, begun)
           w == [struck.voice[s] EXCEPT !.down = struck.held[s].count > 0]
           r == Revoiced(struck, s, w)
<1>1. PlayOn(e, id, s, timing, FALSE) = r
  BY DEF PlayOn, Revoiced
<1>2. Sounds(begun, id)
  <2>1. IsVoice(e.voice[s])
    BY DEF IsEngine
  <2> HIDE DEF id, style
  <2>2. /\ IsVoice(Begun(e.voice[s], id, style, timing))
        /\ Begun(e.voice[s], id, style, timing).id = id
        /\ Begun(e.voice[s], id, style, timing).down = TRUE
    BY <2>1, BegunIs, Zenon
  <2> QED
    BY <2>2 DEF Sounds
<1> HIDE DEF begun, id
<1>3. /\ IsEngine(struck) /\ struck.held = e.held
      /\ \A t \in Strings : struck.voice[t] = IF t = s THEN begun ELSE e.voice[t]
  <2>1. s \in Strings => IsVoice(begun)
    BY <1>2 DEF Sounds
  <2>2. LET q == Revoiced(e, s, begun) IN
        /\ IsEngine(q) /\ q.held = e.held
        /\ \A t \in Strings : q.voice[t] = IF t = s THEN begun ELSE e.voice[t]
    BY <2>1, VoiceReplaced
  <2> QED
    BY <2>2
<1> HIDE DEF struck
<1>4. Sounds(w, id)
  <2>1. w = [begun EXCEPT !.down = TRUE]
    BY <1>3
  <2> HIDE DEF w
  <2> QED
    BY <1>2, <2>1, VoiceTold DEF Sounds
<1> HIDE DEF w
<1>5. /\ IsEngine(r) /\ r.held = struck.held
      /\ \A t \in Strings : r.voice[t] = IF t = s THEN w ELSE struck.voice[t]
  <2>1. IsEngine(struck) /\ IsVoice(w)
    BY <1>3, <1>4 DEF Sounds
  <2> QED
    BY <2>1, VoiceReplaced
<1> HIDE DEF r
<1>6. \A t \in Strings : r.voice[t] = IF t = s THEN w ELSE e.voice[t]
  BY <1>3, <1>5
<1>7. IsEngine(r) /\ r.held = e.held
  BY <1>3, <1>5
<1>8. IsRepicked(e, s, r)
  BY <1>4, <1>6, <1>7 DEF id, IsRepicked
<1> QED
  BY <1>1, <1>8, Zenon DEF id

\* A Note Off takes an owner from every string that holds the pitch, and
\* lifts the finger of those that had one.
LEMMA LiftFingersIs ==
    ASSUME NEW e, IsEngine(e), NEW id
    PROVE  LET r == LiftFingers(e, id)
               lifts(t) == /\ t \in Holders(e, id) /\ e.held[t].count <= 1
                           /\ e.voice[t].id = id
           IN  /\ IsEngine(r)
               /\ \A t \in Strings :
                     /\ r.held[t] = IF t \in Holders(e, id)
                                    THEN OneLess(e.held[t]) ELSE e.held[t]
                     /\ r.voice[t] = IF lifts(t) THEN Stopped(e.voice[t])
                                     ELSE e.voice[t]
<1> DEFINE lifts(t) == /\ t \in Holders(e, id) /\ e.held[t].count <= 1
                       /\ e.voice[t].id = id
           r == LiftFingers(e, id)
           H == [t \in Strings |-> IF t \in Holders(e, id)
                                   THEN OneLess(e.held[t]) ELSE e.held[t]]
           V == [t \in Strings |-> IF lifts(t) THEN Stopped(e.voice[t])
                                   ELSE e.voice[t]]
<1>1. r = [e EXCEPT !.held = H, !.voice = V]
  BY DEF LiftFingers
<1> HIDE DEF lifts, r
<1>2. /\ \A t \in Strings : H[t] = IF t \in Holders(e, id)
                                    THEN OneLess(e.held[t]) ELSE e.held[t]
      /\ \A t \in Strings : V[t] = IF lifts(t) THEN Stopped(e.voice[t])
                                    ELSE e.voice[t]
      /\ H = [t \in Strings |-> H[t]] /\ V = [t \in Strings |-> V[t]]
  OBVIOUS
<1> HIDE DEF H, V
<1>3. /\ r.held = H /\ r.voice = V
      /\ r \in [held : {r.held}, voice : {r.voice},
                outstanding : {r.outstanding}, broadcast : {r.broadcast}]
  BY <1>1 DEF IsEngine
<1>4. \A t \in Strings : IsOwner(H[t]) /\ IsVoice(V[t])
  <2> SUFFICES ASSUME NEW t \in Strings
               PROVE  IsOwner(H[t]) /\ IsVoice(V[t])
    OBVIOUS
  <2>1. IsOwner(e.held[t]) /\ IsVoice(e.voice[t])
    BY DEF IsEngine
  <2>2. H[t] = OneLess(e.held[t]) \/ H[t] = e.held[t]
    BY <1>2
  <2>3. V[t] = Stopped(e.voice[t]) \/ V[t] = e.voice[t]
    BY <1>2
  <2>4. IsVoice(Stopped(e.voice[t])) /\ IsOwner(OneLess(e.held[t]))
    BY <2>1, StoppedIs, OwnersCount
  <2> QED
    BY <2>1, <2>2, <2>3, <2>4
<1>5. IsEngine(r)
  BY <1>2, <1>3, <1>4 DEF IsEngine
<1> QED
  BY <1>2, <1>3, <1>5 DEF r, lifts

\* Note Off either only counts, or lifts the fingers and counts.
LEMMA LiftIs ==
    ASSUME NEW e, IsEngine(e), NEW id
    PROVE  LET r == Lift(e, id)
               f == LiftFingers(e, id)
           IN  /\ IsEngine(r)
               /\ \/ r.held = e.held /\ r.voice = e.voice
                  \/ r.held = f.held /\ r.voice = f.voice
<1> DEFINE f == LiftFingers(e, id)
           r == Lift(e, id)
<1>1. IsEngine(f)
  BY LiftFingersIs
<1>2. \/ \E o, b : r = [e EXCEPT !.outstanding = o, !.broadcast = b]
      \/ \E o, b : r = [f EXCEPT !.outstanding = o, !.broadcast = b]
  <2> HIDE DEF f
  <2>1. \A g : IsEngine(g) =>
           \A o, b : [g EXCEPT !.outstanding[id] = o, !.broadcast[id] = b]
                     = [g EXCEPT !.outstanding = [g.outstanding EXCEPT ![id] = o],
                                 !.broadcast = [g.broadcast EXCEPT ![id] = b]]
    BY DEF IsEngine
  <2> DEFINE left == Max({0, e.outstanding[id] - Cardinality(Holders(e, id))})
  <2>2. \/ r = [e EXCEPT !.outstanding[id] = e.outstanding[id] - 1,
                         !.broadcast[id] = e.broadcast[id] /\ Holders(e, id) # {}]
        \/ r = [f EXCEPT !.outstanding[id] = left,
                         !.broadcast[id] = f.broadcast[id] /\ Holders(f, id) # {}
                                                          /\ left # 0]
    BY DEF Lift, f
  <2> HIDE DEF r, left
  <2>3. ASSUME NEW g, IsEngine(g), NEW o, NEW b,
               r = [g EXCEPT !.outstanding[id] = o, !.broadcast[id] = b]
        PROVE  \E p, c : r = [g EXCEPT !.outstanding = p, !.broadcast = c]
    BY <2>1, <2>3, Zenon
  <2> QED
    BY <1>1, <2>2, <2>3, Zenon
<1> HIDE DEF r, f
<1>3. ASSUME NEW g, IsEngine(g), NEW o, NEW b,
             r = [g EXCEPT !.outstanding = o, !.broadcast = b]
      PROVE  IsEngine(r) /\ r.held = g.held /\ r.voice = g.voice
  <2>1. /\ r.held = g.held /\ r.voice = g.voice
        /\ r \in [held : {r.held}, voice : {r.voice},
                  outstanding : {r.outstanding}, broadcast : {r.broadcast}]
    BY <1>3 DEF IsEngine
  <2> QED
    BY <1>3, <2>1 DEF IsEngine
<1> QED
  BY <1>1, <1>2, <1>3 DEF r, f

-----------------------------------------------------------------------------
(***************************************************************************)
(* Every operation leaves each sounding string to somebody.                *)
(***************************************************************************)
Kept(e, p) ==
    IsEngine(e) /\ \A s \in Strings : Attended(e.voice[s], p)

\* A note on a string is held by its key.
LEMMA PlayOnKeeps ==
    ASSUME NEW e, NEW p, Kept(e, p), NEW id, NEW s, NEW timing
    PROVE  Kept(TakeNote(e, id, s, timing), p)
<1> DEFINE r == TakeNote(e, id, s, timing)
<1>1. IsEngine(e) /\ \A t \in Strings : Attended(e.voice[t], p)
  BY DEF Kept
<1>2. TakesNote(e, id, s, r)
  BY <1>1, PlayOnIs, Zenon
<1> HIDE DEF r
<1>3. PICK w : /\ s \in Strings => Sounds(w, id)
               /\ \A t \in Strings : r.voice[t] = PlayedVoice(e, id, s, t, w)
  BY <1>2 DEF TakesNote
<1>4. ASSUME NEW t \in Strings
      PROVE  Attended(r.voice[t], p)
  <2>1. r.voice[t] = PlayedVoice(e, id, s, t, w) /\ IsVoice(e.voice[t])
    BY <1>1, <1>3 DEF IsEngine
  <2>2. CASE t = s
    BY <1>3, <2>1, <2>2 DEF PlayedVoice, Sounds, Attended
  <2>3. CASE t # s /\ Leaves(e, id, t)
    <3>1. /\ e.voice[t].id.expr # id.expr => LeftBy(e.voice[t], id) = e.voice[t]
          /\ e.voice[t].id.expr = id.expr =>
                (Active(LeftBy(e.voice[t], id)) =>
                    /\ LeftBy(e.voice[t], id).releasing
                    /\ ~LeftBy(e.voice[t], id).waiting)
      BY <2>1, LeftByIs
    <3>2. Attended(LeftBy(e.voice[t], id), p)
      BY <1>1, <3>1 DEF Attended
    <3> QED
      BY <2>1, <2>3, <3>2 DEF PlayedVoice
  <2>4. CASE t # s /\ ~Leaves(e, id, t)
    BY <1>1, <2>1, <2>4 DEF PlayedVoice
  <2> QED
    BY <2>2, <2>3, <2>4
<1>5. IsEngine(r)
  BY <1>2 DEF TakesNote
<1> QED
  BY <1>4, <1>5 DEF Kept, r

\* So is a repick of a held string.
LEMMA RepickKeeps ==
    ASSUME NEW e, NEW p, Kept(e, p), NEW s \in Strings, e.held[s].count > 0,
           NEW timing
    PROVE  Kept(PlayOn(e, e.held[s].id, s, timing, FALSE), p)
<1> DEFINE r == PlayOn(e, e.held[s].id, s, timing, FALSE)
<1>1. IsEngine(e) /\ \A t \in Strings : Attended(e.voice[t], p)
  BY DEF Kept
<1>2. IsRepicked(e, s, r)
  BY <1>1, RepickIs, Zenon
<1> HIDE DEF r
<1>3. \A t \in Strings : Attended(r.voice[t], p)
  BY <1>1, <1>2 DEF IsRepicked, Sounds, Attended
<1> QED
  BY <1>2, <1>3 DEF Kept, IsRepicked, r

\* One note leaves every string attended, wherever it is played.
LEMMA PlayNoteKeeps ==
    ASSUME NEW e, NEW p, Kept(e, p), NEW id, NEW r \in PlayNote(e, id)
    PROVE  Kept(r, p)
<1>1. CASE r = e
  BY <1>1
<1>2. ASSUME NEW s, NEW timing, r = TakeNote(e, id, s, timing)
      PROVE  Kept(r, p)
  BY <1>2, PlayOnKeeps, Zenon
<1>3. r = e \/ \E s, timing : r = TakeNote(e, id, s, timing)
  <2> DEFINE strings == ChooseString(e, id, playStyle)
  <2>1. PlayNote(e, id) = IF strings = {} THEN {e}
                          ELSE {TakeNote(e, id, s, timing) :
                                   s \in strings, timing \in Timings}
    BY DEF PlayNote
  <2> HIDE DEF strings
  <2>2. CASE strings = {}
    BY <2>1, <2>2
  <2>3. CASE strings # {}
    <3>1. r \in {TakeNote(e, id, s, timing) :
                    s \in strings, timing \in Timings}
      BY <2>1, <2>3
    <3> QED
      BY <3>1
  <2> QED
    BY <2>2, <2>3
<1> QED
  BY <1>1, <1>2, <1>3, Zenon

\* A set of numbers has a least one.
LEMMA LeastIsThere ==
    ASSUME NEW S \in SUBSET Nat, S # {}
    PROVE  \E m \in S : \A y \in S : m <= y
<1>1. \E m \in S : \A y \in S : <<y, m>> \notin OpToRel(<, Nat)
  BY NatLessThanWellFounded, WFMin, Zenon
<1>2. PICK m \in S : \A y \in S : <<y, m>> \notin OpToRel(<, Nat)
  BY <1>1
<1>3. \A y \in S : m <= y
  <2> SUFFICES ASSUME NEW y \in S
               PROVE  m <= y
    OBVIOUS
  <2>1. <<y, m>> \notin OpToRel(<, Nat)
    BY <1>2
  <2>2. ~(y < m)
    BY <2>1 DEF OpToRel
  <2> QED
    BY <2>2
<1> QED
  BY <1>3

\* A set of strings has a lowest one, and Min finds it.
LEMMA MinIsIn ==
    ASSUME NEW S \in SUBSET Nat, S # {}
    PROVE  Min(S) \in S
BY LeastIsThere, Zenon DEF Min

\* What holds at the start of a walk and is carried over each of its steps
\* holds all along it.
LEMMA WalkUp ==
    ASSUME NEW N \in Nat, NEW G, 0 \in G,
           \A n \in 0 .. N : n < N /\ n \in G => n + 1 \in G
    PROVE  \A n \in 0 .. N : n \in G
<1> DEFINE B == {n \in 0 .. N : n \notin G}
<1> SUFFICES ASSUME B # {} PROVE FALSE
  OBVIOUS
<1>1. B \in SUBSET Nat
  OBVIOUS
<1>2. \E m \in B : \A y \in B : <<y, m>> \notin OpToRel(<, Nat)
  <2> HIDE DEF B
  <2> QED
    BY <1>1, NatLessThanWellFounded, WFMin, Zenon
<1>3. PICK m \in B : \A y \in B : <<y, m>> \notin OpToRel(<, Nat)
  BY <1>2
<1>4. m \in 0 .. N /\ m \notin G /\ m # 0
  OBVIOUS
<1>5. m - 1 \in 0 .. N /\ m - 1 < N /\ (m - 1) + 1 = m
  BY <1>4
<1>6. m - 1 \notin G
  BY <1>4, <1>5
<1>7. <<m - 1, m>> \in OpToRel(<, Nat)
  BY <1>4, <1>5 DEF OpToRel
<1> QED
  BY <1>3, <1>5, <1>6, <1>7

LEMMA StringsAreNumbers == Strings \in SUBSET Nat
<1>1. Cardinality(Strings) \in Nat
  BY NeckAssumption, FS_CardinalityType
<1>2. 1 .. Cardinality(Strings) \in SUBSET Nat
  BY <1>1
<1> QED
  BY <1>2, NeckAssumption, Zenon

\* Re-fingering moves owners and leaves every voice alone.
LEMMA RefingeredIs ==
    ASSUME NEW e, IsEngine(e), NEW ids, NEW a
    PROVE  IsEngine(Refingered(e, ids, a)) /\ Refingered(e, ids, a).voice = e.voice
<1> DEFINE sources(i) == Holders(e, i) \ {a[i]}
           r == Refingered(e, ids, a)
<1>1. \E H : /\ r = [e EXCEPT !.held = H]
             /\ H = [s \in Strings |-> H[s]]
             /\ \A s \in Strings :
                   \/ H[s] = Free \/ H[s] = e.held[s]
                   \/ \E i : /\ sources(i) # {}
                            /\ H[s] = [id |-> i, count |-> e.held[Min(sources(i))].count]
  <2> DEFINE arriving(s) == {i \in ids : a[i] = s /\ sources(i) # {}}
             leaves(s, i) == /\ a[i] # s
                             /\ e.held[s].count > 0
                             /\ \/ e.held[s].id = i
                                \/ i.expr # Legacy /\ e.held[s].id.expr = i.expr
             taken(s) == \E i \in ids : a[i] = s /\ e.held[s].id # i
             first(s) == CHOOSE i \in arriving(s) : TRUE
             owners(s) ==
                 IF arriving(s) # {}
                 THEN [id |-> first(s), count |-> e.held[Min(sources(first(s)))].count]
                 ELSE IF taken(s) \/ \E i \in ids : leaves(s, i) THEN Free
                 ELSE e.held[s]
             H == [s \in Strings |-> owners(s)]
  <2>1. r = [e EXCEPT !.held = H]
    BY DEF Refingered
  <2>2. ASSUME NEW s, arriving(s) # {}
        PROVE  sources(first(s)) # {}
    BY <2>2
  <2> HIDE DEF sources, arriving, taken, leaves, first, r
  <2>3. H = [s \in Strings |-> H[s]]
    OBVIOUS
  <2>4. \A s \in Strings :
           \/ H[s] = Free \/ H[s] = e.held[s]
           \/ \E i : /\ sources(i) # {}
                    /\ H[s] = [id |-> i, count |-> e.held[Min(sources(i))].count]
    BY <2>2
  <2> HIDE DEF H
  <2> QED
    BY <2>1, <2>3, <2>4
<1> HIDE DEF r
<1>2. PICK H : /\ r = [e EXCEPT !.held = H]
               /\ H = [s \in Strings |-> H[s]]
               /\ \A s \in Strings :
                     \/ H[s] = Free \/ H[s] = e.held[s]
                     \/ \E i : /\ sources(i) # {}
                              /\ H[s] = [id |-> i, count |-> e.held[Min(sources(i))].count]
  BY <1>1
<1>3. /\ r.held = H /\ r.voice = e.voice
      /\ r \in [held : {r.held}, voice : {r.voice},
                outstanding : {r.outstanding}, broadcast : {r.broadcast}]
  BY <1>2 DEF IsEngine
<1>4. ASSUME NEW s \in Strings
      PROVE  IsOwner(H[s])
  <2>1. CASE H[s] = Free \/ H[s] = e.held[s]
    BY <2>1, EmptyString DEF IsEngine
  <2>2. ASSUME NEW i, sources(i) # {},
               H[s] = [id |-> i, count |-> e.held[Min(sources(i))].count]
        PROVE  IsOwner(H[s])
    <3>1. sources(i) \subseteq Strings /\ sources(i) \in SUBSET Nat
      BY StringsAreNumbers DEF Holders
    <3>2. Min(sources(i)) \in Strings
      BY <2>2, <3>1, MinIsIn
    <3>3. e.held[Min(sources(i))].count \in Nat
      BY <3>2 DEF IsEngine, IsOwner
    <3> HIDE DEF sources
    <3> QED
      BY <2>2, <3>3 DEF IsOwner
  <2> QED
    BY <1>2, <2>1, <2>2
<1>5. IsEngine(r)
  BY <1>2, <1>3, <1>4 DEF IsEngine
<1> QED
  BY <1>3, <1>5 DEF r

\* The pitches of a finite chord are counted.
LEMMA CanonicalIsSeq ==
    ASSUME NEW ids, IsFiniteSet(ids)
    PROVE  \E S : Canonical(ids) \in Seq(S)
<1> DEFINE q == Canonical(ids)
           S == {q[n] : n \in 1 .. Cardinality(ids)}
<1>1. Cardinality(ids) \in Nat
  BY FS_CardinalityType
<1>2. q = [n \in 1 .. Cardinality(ids) |-> q[n]]
  <2> DEFINE F(n) ==
          CHOOSE i \in ids : Cardinality({j \in ids : Lower(j, i)}) = n - 1
  <2>1. q = [n \in 1 .. Cardinality(ids) |-> F(n)]
    BY DEF Canonical
  <2> HIDE DEF F, q
  <2> QED
    BY <2>1
<1> HIDE DEF q
<1>3. q \in [1 .. Cardinality(ids) -> S]
  BY <1>2
<1>4. q \in Seq(S)
  BY <1>1, <1>3, SeqDef
<1> QED
  BY <1>4 DEF q

\* The events of a chord that fits the neck, and the engines after each.
ShapeEvents(ids, repeats) == Canonical(ids) \o Canonical(repeats)

StruckNotes(es, id, s) ==
    {TakeNote(f, id, s, timing) : f \in es, timing \in Timings}

ShapeWalk(e, ids, repeats, a, struck) ==
    /\ struck[0] = {Refingered(e, ids, a)}
    /\ \A n \in 1 .. Len(ShapeEvents(ids, repeats)) :
          LET id == ShapeEvents(ids, repeats)[n]
          IN  struck[n] = StruckNotes(struck[n - 1], id, a[id])

\* A chord's shape is struck one event after the other.
LEMMA ShapeIsWalked ==
    ASSUME NEW e, NEW ids, NEW repeats, NEW a,
           IsFiniteSet(ids), IsFiniteSet(repeats),
           NEW r \in PlayShape(e, ids, repeats, a)
    PROVE  LET N == Len(ShapeEvents(ids, repeats))
           IN  /\ N \in Nat
               /\ \E struck : ShapeWalk(e, ids, repeats, a, struck) /\ r \in struck[N]
<1> DEFINE events == Canonical(ids) \o Canonical(repeats)
           N == Len(events)
           base == {Refingered(e, ids, a)}
           Step(es, n) == {TakeNote(f, events[n], a[events[n]], timing) :
                              f \in es, timing \in Timings}
           Walk(g, m) == g = [n \in 0 .. m |-> IF n = 0 THEN base
                                               ELSE Step(g[n - 1], n)]
<1>1. N \in Nat
  <2>1. PICK S : Canonical(ids) \in Seq(S)
    BY CanonicalIsSeq
  <2>2. PICK T : Canonical(repeats) \in Seq(T)
    BY CanonicalIsSeq
  <2>3. Len(Canonical(ids)) \in Nat /\ Len(Canonical(repeats)) \in Nat
    BY <2>1, <2>2
  <2>4. Canonical(ids) \in Seq(S \cup T) /\ Canonical(repeats) \in Seq(S \cup T)
    BY <2>1, <2>2, SeqMonotonic
  <2> QED
    BY <2>4
<1>2. \E struck : Walk(struck, N) /\ r \in struck[N]
  <2>1. \E g : Walk(g, N)
    <3> DEFINE G == {m \in 0 .. N : \E g : Walk(g, m)}
    <3> HIDE DEF N, base, Step
    <3>1. 0 \in G
      <4>1. Walk([n \in 0 .. 0 |-> base], 0)
        OBVIOUS
      <4> HIDE DEF Walk
      <4> QED
        BY <1>1, <4>1
    <3>2. ASSUME NEW m \in 0 .. N, m < N, m \in G
          PROVE  m + 1 \in G
      <4>1. PICK g : Walk(g, m)
        BY <3>2
      <4> DEFINE h == [n \in 0 .. m + 1 |-> IF n = m + 1 THEN Step(g[m], n)
                                           ELSE g[n]]
      <4>2. Walk(h, m + 1)
        <5>1. \A n \in 0 .. m + 1 : h[n] = IF n = 0 THEN base
                                          ELSE Step(h[n - 1], n)
          BY <4>1
        <5> QED
          BY <5>1
      <4>3. m + 1 \in 0 .. N
        BY <1>1, <3>2
      <4> HIDE DEF Walk, h
      <4> QED
        BY <4>2, <4>3
    <3>3. \A m \in 0 .. N : m \in G
      <4> HIDE DEF G
      <4> QED
        BY <1>1, <3>1, <3>2, WalkUp
    <3> QED
      BY <1>1, <3>3
  <2> DEFINE struck == CHOOSE g : Walk(g, N)
  <2>2. PlayShape(e, ids, repeats, a) = struck[N]
    BY DEF PlayShape
  <2>3. Walk(struck, N)
    <3> HIDE DEF Walk, N
    <3> QED
      BY <2>1, Zenon
  <2> HIDE DEF Walk, struck, N
  <2> QED
    BY <2>2, <2>3
<1>3. PICK struck : Walk(struck, N) /\ r \in struck[N]
  <2> HIDE DEF Walk, N
  <2> QED
    BY <1>2
<1>4. struck[0] = base
  BY <1>1, <1>3
<1>5. ASSUME NEW n \in 1 .. N
      PROVE  struck[n] = Step(struck[n - 1], n)
  <2>1. n \in 0 .. N /\ n # 0
    BY <1>1
  <2> HIDE DEF Step, N, base
  <2> QED
    BY <1>3, <2>1
<1>6. ShapeWalk(e, ids, repeats, a, struck)
  <2>1. \A es, n : Step(es, n) = StruckNotes(es, events[n], a[events[n]])
    BY DEF StruckNotes
  <2> HIDE DEF Walk, Step, base
  <2>2. \A n \in 1 .. N : struck[n] = StruckNotes(struck[n - 1], events[n], a[events[n]])
    BY <1>5, <2>1, Zenon
  <2> QED
    BY <1>4, <2>2, Zenon DEF ShapeWalk, ShapeEvents, base
<1>7. N = Len(ShapeEvents(ids, repeats))
  BY DEF ShapeEvents
<1> HIDE DEF N, Walk
<1> QED
  BY <1>1, <1>3, <1>6, <1>7, Zenon

\* Every shape of a chord leaves every string attended.
LEMMA PlayShapeKeeps ==
    ASSUME NEW e, NEW p, Kept(e, p), NEW ids, NEW repeats, NEW a,
           IsFiniteSet(ids), IsFiniteSet(repeats),
           NEW r \in PlayShape(e, ids, repeats, a)
    PROVE  Kept(r, p)
<1> DEFINE events == ShapeEvents(ids, repeats)
           N == Len(events)
<1>1. N \in Nat
  BY ShapeIsWalked
<1>2. PICK struck : ShapeWalk(e, ids, repeats, a, struck) /\ r \in struck[N]
  BY ShapeIsWalked
<1> DEFINE G == {m \in 0 .. N : \A f \in struck[m] : Kept(f, p)}
<1>3. 0 \in G
  <2>1. Kept(Refingered(e, ids, a), p)
    BY RefingeredIs DEF Kept
  <2>2. struck[0] = {Refingered(e, ids, a)}
    BY <1>2 DEF ShapeWalk
  <2> QED
    BY <1>1, <2>1, <2>2
<1>4. ASSUME NEW m \in 0 .. N, m < N, m \in G
      PROVE  m + 1 \in G
  <2> DEFINE id == events[m + 1]
  <2>1. m + 1 \in 0 .. N /\ m + 1 \in 1 .. N /\ (m + 1) - 1 = m
    BY <1>1, <1>4
  <2>2. struck[m + 1] = StruckNotes(struck[m], id, a[id])
    BY <1>2, <2>1 DEF ShapeWalk
  <2> HIDE DEF id
  <2>3. ASSUME NEW f \in struck[m + 1]
        PROVE  Kept(f, p)
    <3>1. PICK g \in struck[m], timing \in Timings :
             f = TakeNote(g, id, a[id], timing)
      BY <2>2 DEF StruckNotes
    <3>2. Kept(g, p)
      BY <1>4, <3>1
    <3>3. Kept(TakeNote(g, id, a[id], timing), p)
      BY <3>2, PlayOnKeeps, Zenon
    <3> QED
      BY <3>1, <3>3
  <2> HIDE DEF N
  <2> QED
    BY <2>1, <2>3
<1>5. N \in G
  <2> HIDE DEF N, G
  <2> QED
    BY <1>1, <1>3, <1>4, WalkUp
<1> QED
  BY <1>2, <1>5

\* Every engine the next note may leave.
NextNotes(es, id) == UNION {PlayNote(f, id) : f \in es}

SingleWalk(e, ids, repeats, played) ==
    /\ played[0] = {e}
    /\ \A n \in 1 .. Len(Canonical(ids)) :
          LET id == Canonical(ids)[n]
          IN  played[n] = IF id \in repeats
                          THEN NextNotes(NextNotes(played[n - 1], id), id)
                          ELSE NextNotes(played[n - 1], id)

\* A chord too wide for the neck is played one pitch after the other.
LEMMA SinglyIsWalked ==
    ASSUME NEW e, NEW ids, NEW repeats, IsFiniteSet(ids),
           NEW r \in PlaySingly(e, ids, repeats)
    PROVE  LET N == Len(Canonical(ids))
           IN  /\ N \in Nat
               /\ \E played : SingleWalk(e, ids, repeats, played) /\ r \in played[N]
<1> DEFINE pitches == Canonical(ids)
           N == Len(pitches)
           base == {e}
           play(es, i) == UNION {PlayNote(f, i) : f \in es}
           Step(es, n) == IF pitches[n] \in repeats
                          THEN play(play(es, pitches[n]), pitches[n])
                          ELSE play(es, pitches[n])
           Walk(g, m) == g = [n \in 0 .. m |-> IF n = 0 THEN base
                                               ELSE Step(g[n - 1], n)]
<1>1. N \in Nat
  <2>1. PICK S : Canonical(ids) \in Seq(S)
    BY CanonicalIsSeq
  <2> QED
    BY <2>1
<1>2. \E played : Walk(played, N) /\ r \in played[N]
  <2>1. \E g : Walk(g, N)
    <3> DEFINE G == {m \in 0 .. N : \E g : Walk(g, m)}
    <3> HIDE DEF N, base, Step
    <3>1. 0 \in G
      <4>1. Walk([n \in 0 .. 0 |-> base], 0)
        OBVIOUS
      <4> HIDE DEF Walk
      <4> QED
        BY <1>1, <4>1
    <3>2. ASSUME NEW m \in 0 .. N, m < N, m \in G
          PROVE  m + 1 \in G
      <4>1. PICK g : Walk(g, m)
        BY <3>2
      <4> DEFINE h == [n \in 0 .. m + 1 |-> IF n = m + 1 THEN Step(g[m], n)
                                           ELSE g[n]]
      <4>2. Walk(h, m + 1)
        <5>1. \A n \in 0 .. m + 1 : h[n] = IF n = 0 THEN base
                                          ELSE Step(h[n - 1], n)
          BY <4>1
        <5> QED
          BY <5>1
      <4>3. m + 1 \in 0 .. N
        BY <1>1, <3>2
      <4> HIDE DEF Walk, h
      <4> QED
        BY <4>2, <4>3
    <3>3. \A m \in 0 .. N : m \in G
      <4> HIDE DEF G
      <4> QED
        BY <1>1, <3>1, <3>2, WalkUp
    <3> QED
      BY <1>1, <3>3
  <2> DEFINE played == CHOOSE g : Walk(g, N)
  <2>2. PlaySingly(e, ids, repeats) = played[N]
    BY DEF PlaySingly
  <2>3. Walk(played, N)
    <3> HIDE DEF Walk, N
    <3> QED
      BY <2>1, Zenon
  <2> HIDE DEF Walk, played, N
  <2> QED
    BY <2>2, <2>3
<1>3. PICK played : Walk(played, N) /\ r \in played[N]
  <2> HIDE DEF Walk, N
  <2> QED
    BY <1>2
<1>4. played[0] = base
  BY <1>1, <1>3
<1>5. ASSUME NEW n \in 1 .. N
      PROVE  played[n] = Step(played[n - 1], n)
  <2>1. n \in 0 .. N /\ n # 0
    BY <1>1
  <2> HIDE DEF Step, N, base
  <2> QED
    BY <1>3, <2>1
<1>6. SingleWalk(e, ids, repeats, played)
  <2>1. \A es, id : play(es, id) = NextNotes(es, id)
    BY DEF NextNotes
  <2> HIDE DEF Walk, play
  <2> QED
    BY <1>4, <1>5, <2>1, Zenon DEF SingleWalk
<1> HIDE DEF N, Walk
<1> QED
  BY <1>1, <1>3, <1>6, Zenon DEF N

\* So does a chord of more pitches than the strings can take.
LEMMA PlaySinglyKeeps ==
    ASSUME NEW e, NEW p, Kept(e, p), NEW ids, NEW repeats, IsFiniteSet(ids),
           NEW r \in PlaySingly(e, ids, repeats)
    PROVE  Kept(r, p)
<1> DEFINE N == Len(Canonical(ids))
<1>1. N \in Nat
  BY SinglyIsWalked
<1>2. PICK played : SingleWalk(e, ids, repeats, played) /\ r \in played[N]
  BY SinglyIsWalked
<1> DEFINE G == {m \in 0 .. N : \A f \in played[m] : Kept(f, p)}
<1>3. 0 \in G
  BY <1>1, <1>2 DEF SingleWalk
<1>4. ASSUME NEW m \in 0 .. N, m < N, m \in G
      PROVE  m + 1 \in G
  <2> DEFINE id == Canonical(ids)[m + 1]
  <2>1. m + 1 \in 0 .. N /\ m + 1 \in 1 .. N /\ (m + 1) - 1 = m
    BY <1>1, <1>4
  <2>2. \/ played[m + 1] = NextNotes(NextNotes(played[m], id), id)
        \/ played[m + 1] = NextNotes(played[m], id)
    BY <1>2, <2>1 DEF SingleWalk
  <2> HIDE DEF id
  <2>3. ASSUME NEW es, \A f \in es : Kept(f, p)
        PROVE  \A f \in NextNotes(es, id) : Kept(f, p)
    BY <2>3, PlayNoteKeeps DEF NextNotes
  <2>4. \A f \in played[m] : Kept(f, p)
    BY <1>4
  <2>5. \A f \in played[m + 1] : Kept(f, p)
    <3> HIDE DEF N, G
    <3> QED
      BY <2>2, <2>3, <2>4, Zenon
  <2> HIDE DEF N
  <2> QED
    BY <2>1, <2>5
<1>5. N \in G
  <2> HIDE DEF N, G
  <2> QED
    BY <1>1, <1>3, <1>4, WalkUp
<1> QED
  BY <1>2, <1>5

\* So does a Note Off, stray or not.
LEMMA LiftKeeps ==
    ASSUME NEW e, Kept(e, pedal), NEW id
    PROVE  Kept(Lift(e, id), pedal)
<1> DEFINE r == Lift(e, id)
           f == LiftFingers(e, id)
<1>1. IsEngine(e) /\ \A t \in Strings : Attended(e.voice[t], pedal)
  BY DEF Kept
<1>2. IsEngine(r) /\ (r.voice = e.voice \/ r.voice = f.voice)
  BY <1>1, LiftIs
<1>3. \A t \in Strings : f.voice[t] = Stopped(e.voice[t]) \/ f.voice[t] = e.voice[t]
  BY <1>1, LiftFingersIs
<1> HIDE DEF r, f
<1>4. ASSUME NEW t \in Strings
      PROVE  Attended(r.voice[t], pedal)
  <2>1. IsVoice(e.voice[t])
    BY <1>1 DEF IsEngine
  <2>2. Attended(Stopped(e.voice[t]), pedal)
    BY <2>1, StoppedIs DEF Attended
  <2>3. r.voice[t] = Stopped(e.voice[t]) \/ r.voice[t] = e.voice[t]
    BY <1>2, <1>3
  <2> QED
    BY <1>1, <2>2, <2>3
<1> QED
  BY <1>2, <1>4 DEF Kept, r

\* An engine in which nothing sounds.
LEMMA SilencedIs ==
    /\ IsEngine(Silenced)
    /\ \A s \in Strings : Silenced.held[s] = Free /\ Silenced.voice[s] = Silent
<1> DEFINE H == [s \in Strings |-> Free]
           V == [s \in Strings |-> Silent]
           O == [id \in Ids |-> 0]
           B == [id \in Ids |-> FALSE]
<1>1. Silenced = [held |-> H, voice |-> V, outstanding |-> O, broadcast |-> B]
  BY DEF Silenced
<1>2. /\ H = [s \in Strings |-> H[s]] /\ V = [s \in Strings |-> V[s]]
      /\ \A s \in Strings : H[s] = Free /\ V[s] = Silent
  OBVIOUS
<1> HIDE DEF H, V, O, B
<1>3. /\ Silenced.held = H /\ Silenced.voice = V
      /\ Silenced \in [held : {Silenced.held}, voice : {Silenced.voice},
                       outstanding : {Silenced.outstanding},
                       broadcast : {Silenced.broadcast}]
  BY <1>1
<1> QED
  BY <1>2, <1>3, EmptyString DEF IsEngine

\* Every voice replaced, and no finger moved.
AllRevoiced(e, r, V) == r = [e EXCEPT !.voice = V]

LEMMA AllReplaced ==
    ASSUME NEW e, IsEngine(e), NEW V, V = [s \in Strings |-> V[s]],
           \A s \in Strings : IsVoice(V[s]), NEW r, AllRevoiced(e, r, V)
    PROVE  IsEngine(r) /\ r.held = e.held /\ r.voice = V
<1>1. /\ r.held = e.held /\ r.voice = V
      /\ r \in [held : {r.held}, voice : {r.voice},
                outstanding : {r.outstanding}, broadcast : {r.broadcast}]
  BY DEF IsEngine, AllRevoiced
<1> QED
  BY <1>1 DEF IsEngine

\* The chords a client can play are finite.
LEMMA ChordsAreFinite ==
    ASSUME client \in Clients, NEW ids \in SUBSET Played, NEW repeats \in SUBSET ids
    PROVE  IsFiniteSet(ids) /\ IsFiniteSet(repeats)
<1> DEFINE pairs == client.notes \X client.expressions
           made == {[note |-> x[1], expr |-> x[2]] : x \in pairs}
<1>1. IsFiniteSet(client.notes) /\ IsFiniteSet(client.expressions)
  BY NeckAssumption
<1>2. IsFiniteSet(pairs)
  BY <1>1, FS_Product
<1>3. IsFiniteSet(made)
  <2> DEFINE F == [x \in pairs |-> [note |-> x[1], expr |-> x[2]]]
  <2>1. F \in Surjection(pairs, made)
    BY DEF Surjection
  <2> HIDE DEF pairs, made, F
  <2> QED
    BY <1>2, <2>1, FS_Surjection
<1>4. Played \subseteq made
  <2> SUFFICES ASSUME NEW i \in Played PROVE i \in made
    OBVIOUS
  <2>1. /\ i = [note |-> i.note, expr |-> i.expr]
        /\ <<i.note, i.expr>> \in pairs
    BY DEF Played
  <2> QED
    BY <2>1
<1> QED
  BY <1>3, <1>4, FS_Subset

Attends == client \in Clients /\ Kept(engine, pedal)

\* Every step leaves every sounding string to somebody.
LEMMA AttendsStep == Attends /\ [Next]_vars => Attends'
<1> SUFFICES ASSUME Attends, [Next]_vars PROVE Attends'
  OBVIOUS
<1>0. /\ client \in Clients /\ Kept(engine, pedal) /\ IsEngine(engine)
      /\ \A s \in Strings : /\ Attended(engine.voice[s], pedal)
                            /\ IsVoice(engine.voice[s])
  BY DEF Attends, Kept, IsEngine
<1>1. ASSUME NEW id, NoteOn(id) PROVE Attends'
  <2>1. engine' \in PlayNote(engine, id) /\ UNCHANGED <<pedal, client>>
    BY <1>1 DEF NoteOn
  <2>2. Kept(engine', pedal)
    BY <1>0, <2>1, PlayNoteKeeps
  <2> QED
    BY <1>0, <2>1, <2>2 DEF Attends
<1>2. ASSUME NEW id, NoteOff(id) PROVE Attends'
  <2>1. engine' = Lift(engine, id) /\ UNCHANGED <<pedal, client>>
    BY <1>2 DEF NoteOff
  <2> QED
    BY <1>0, <2>1, LiftKeeps DEF Attends
<1>3. ASSUME NEW ids \in SUBSET Played, NEW repeats \in SUBSET ids,
             NoteOnChord(ids, repeats)
      PROVE  Attends'
  <2>1. engine' \in PlayChord(engine, ids, repeats) /\ UNCHANGED <<pedal, client>>
    BY <1>3 DEF NoteOnChord
  <2>2. IsFiniteSet(ids) /\ IsFiniteSet(repeats)
    BY <1>0, ChordsAreFinite
  <2>3. \/ engine' \in PlaySingly(engine, ids, repeats)
        \/ \E a : engine' \in PlayShape(engine, ids, repeats, a)
    BY <2>1 DEF PlayChord
  <2>4. Kept(engine', pedal)
    BY <1>0, <2>2, <2>3, PlaySinglyKeeps, PlayShapeKeeps
  <2> QED
    BY <1>0, <2>1, <2>4 DEF Attends
<1>4. ASSUME NEW s \in Strings, RepickHeldString(s) PROVE Attends'
  <2>1. PICK timing \in Timings :
           engine' = PlayOn(engine, engine.held[s].id, s, timing, FALSE)
    BY <1>4 DEF RepickHeldString
  <2>2. Kept(engine', pedal)
    BY <1>0, <1>4, <2>1, RepickKeeps DEF RepickHeldString
  <2> QED
    BY <1>0, <1>4, <2>2 DEF RepickHeldString, Attends
<1>5. CASE PedalUp
  <2> DEFINE V == [s \in Strings |->
                     LET v == engine.voice[s]
                         left == IF pedal /\ v.sustained /\ ~v.down
                                 THEN Release(v) ELSE v
                     IN  [left EXCEPT !.sustained = FALSE]]
  <2>1. /\ AllRevoiced(engine, engine', V)
        /\ pedal' = FALSE /\ client' = client
    BY <1>5 DEF PedalUp, AllRevoiced
  <2>2. ASSUME NEW s \in Strings
        PROVE  IsVoice(V[s]) /\ Attended(V[s], FALSE)
    <3> DEFINE v == engine.voice[s]
               left == IF pedal /\ v.sustained /\ ~v.down
                       THEN Release(v) ELSE v
    <3>1. IsVoice(v) /\ Attended(v, pedal)
      BY <1>0
    <3>2. /\ IsVoice(left)
          /\ Active(left) => left.down \/ (left.releasing /\ ~left.waiting)
      <4>1. CASE pedal /\ v.sustained /\ ~v.down
        <5> HIDE DEF v
        <5> QED
          BY <3>1, <4>1, ReleaseIs
      <4>2. CASE ~(pedal /\ v.sustained /\ ~v.down)
        <5> HIDE DEF v
        <5> QED
          BY <3>1, <4>2 DEF Attended
      <4> QED
        BY <4>1, <4>2
    <3>3. V[s] = [left EXCEPT !.sustained = FALSE]
      OBVIOUS
    <3> HIDE DEF V, left, v
    <3>4. /\ IsVoice(V[s]) /\ V[s].id = left.id /\ V[s].down = left.down
          /\ V[s].releasing = left.releasing /\ V[s].waiting = left.waiting
      BY <3>2, <3>3 DEF IsVoice, VoiceOf
    <3> QED
      BY <3>2, <3>4 DEF Attended, Active
  <2>3. V = [s \in Strings |-> V[s]]
    OBVIOUS
  <2> HIDE DEF V
  <2>4. IsEngine(engine') /\ engine'.voice = V
    BY <1>0, <2>1, <2>2, <2>3, AllReplaced
  <2> QED
    BY <1>0, <2>1, <2>2, <2>4 DEF Attends, Kept
<1>6. CASE PedalDown
  BY <1>0, <1>6 DEF PedalDown, Attends, Kept, Attended
<1>7. ASSUME NEW x, SelectPlayStyle(x) \/ SelectSolo(x) PROVE Attends'
  BY <1>0, <1>7 DEF SelectPlayStyle, SelectSolo, Attends
<1>8. CASE AllNotesOff
  <2> DEFINE up(s) == [engine.voice[s] EXCEPT !.down = FALSE, !.sustained = FALSE]
             V == [s \in Strings |-> Release(up(s))]
  <2>1. /\ AllRevoiced(Silenced, engine', V)
        /\ UNCHANGED <<pedal, client>>
    BY <1>8 DEF AllNotesOff, AllRevoiced
  <2>2. ASSUME NEW s \in Strings
        PROVE  IsVoice(V[s]) /\ Attended(V[s], pedal)
    <3>1. IsVoice(up(s))
      BY <1>0 DEF IsVoice, VoiceOf
    <3>2. V[s] = Release(up(s))
      OBVIOUS
    <3> HIDE DEF V, up
    <3> QED
      BY <3>1, <3>2, ReleaseIs DEF Attended
  <2>3. V = [s \in Strings |-> V[s]]
    OBVIOUS
  <2> HIDE DEF V
  <2>4. IsEngine(engine') /\ engine'.voice = V
    BY SilencedIs, <2>1, <2>2, <2>3, AllReplaced
  <2> QED
    BY <1>0, <2>1, <2>2, <2>4 DEF Attends, Kept
<1>9. CASE Reset
  <2>1. Kept(Silenced, FALSE)
    BY SilencedIs, EmptyString DEF Kept, Attended
  <2> QED
    BY <1>0, <1>9, <2>1 DEF Reset, Attends
<1>10. ASSUME NEW s \in Strings, NEW w, IsVoice(w), Attended(w, pedal),
              engine' = Revoiced(engine, s, w), UNCHANGED <<pedal, client>>
       PROVE  Attends'
  <2>1. /\ IsEngine(engine')
        /\ \A t \in Strings : engine'.voice[t] = IF t = s THEN w
                                                 ELSE engine.voice[t]
    BY <1>0, <1>10, VoiceReplaced
  <2> QED
    BY <1>0, <1>10, <2>1 DEF Attends, Kept
<1>11. ASSUME NEW s \in Strings, NEW again \in BOOLEAN, Contact(s, again)
       PROVE  Attends'
  <2> DEFINE v == engine.voice[s]
             landed == IF v.repick
                       THEN [v EXCEPT !.releasing = FALSE, !.repick = FALSE,
                                      !.waiting = again, !.ring = again]
                       ELSE [v EXCEPT !.waiting = FALSE, !.ring = FALSE]
  <2>1. /\ engine' = Revoiced(engine, s, landed)
        /\ UNCHANGED <<pedal, client>> /\ v.waiting
    BY <1>11 DEF Contact, Revoiced
  <2>2. IsVoice(v) /\ Attended(v, pedal)
    BY <1>0
  <2> HIDE DEF v
  <2>3. /\ IsVoice(landed) /\ landed.id = v.id
        /\ landed.down = v.down /\ landed.sustained = v.sustained
    <3>1. CASE v.repick
      BY <2>2, <3>1 DEF IsVoice, VoiceOf
    <3>2. CASE ~v.repick
      BY <2>2, <3>2 DEF IsVoice, VoiceOf
    <3> QED
      BY <3>1, <3>2
  <2> HIDE DEF landed
  <2>4. Attended(landed, pedal)
    BY <2>1, <2>2, <2>3 DEF Attended, Active
  <2> QED
    BY <1>10, <2>1, <2>3, <2>4
<1>12. ASSUME NEW s \in Strings, Retire(s) PROVE Attends'
  <2>1. /\ engine' = Revoiced(engine, s, Silent)
        /\ UNCHANGED <<pedal, client>>
    BY <1>12 DEF Retire, Revoiced
  <2>2. Attended(Silent, pedal)
    BY EmptyString DEF Attended
  <2> QED
    BY <1>10, <2>1, <2>2, EmptyString
<1>13. CASE Recover
  <2> DEFINE V == [s \in Strings |-> Silent]
  <2>1. /\ AllRevoiced(engine, engine', V)
        /\ UNCHANGED <<pedal, client>>
    BY <1>13 DEF Recover, AllRevoiced
  <2>2. /\ V = [s \in Strings |-> V[s]]
        /\ \A s \in Strings : IsVoice(V[s]) /\ Attended(V[s], pedal)
    BY EmptyString DEF Attended
  <2> HIDE DEF V
  <2>3. IsEngine(engine') /\ engine'.voice = V
    BY <1>0, <2>1, <2>2, AllReplaced
  <2> QED
    BY <1>0, <2>1, <2>2, <2>3 DEF Attends, Kept
<1>14. CASE UNCHANGED vars
  BY <1>0, <1>14 DEF vars, Attends
<1> QED
  BY <1>1, <1>2, <1>3, <1>4, <1>5, <1>6, <1>7, <1>8, <1>9, <1>11, <1>12,
     <1>13, <1>14
  DEF Next, Playing, Rendering

LEMMA AttendsStart == Init => Attends
<1>1. Kept(Silenced, FALSE)
  BY SilencedIs, EmptyString DEF Kept, Attended
<1> QED
  BY <1>1 DEF Init, Attends

\* No string rings with nobody to stop it, for every number of strings, every
\* tuning and every client: picks cancelled, late and repicked, pedal moves,
\* legato, chords too wide for the neck, stray Note Offs (beginVoiceRelease,
\* setSustainPedal, noteOff).
THEOREM NoneUnattended == Spec => []NothingRingsUnattended
<1>1. Attends => NothingRingsUnattended
  BY DEF Attends, Kept, Attended, NothingRingsUnattended
<1> QED
  BY <1>1, AttendsStart, AttendsStep, PTL DEF Spec

-----------------------------------------------------------------------------
(***************************************************************************)
(* As long as notes come one at a time, fingers and voices agree.          *)
(***************************************************************************)

\* A string's owner and its voice tell the same story.
Paired(h, v) ==
    /\ h.count > 0 <=> h.id # NoId
    /\ Active(v) => /\ v.down <=> h.count > 0
                    /\ v.down => h.id = v.id

\* A member channel owns one string.
OneFinger(held) ==
    \A s, t \in Strings :
        /\ held[s].count > 0 /\ held[t].count > 0
        /\ held[s].id.expr = held[t].id.expr /\ held[s].id.expr # Legacy
        => s = t

Fingered(e) ==
    /\ IsEngine(e)
    /\ \A s \in Strings : Paired(e.held[s], e.voice[s])
    /\ OneFinger(e.held)

\* A free string whose voice's key is up, or that is silent, is in order.
LEMMA FreePairs ==
    ASSUME NEW v, ~Active(v) \/ v.down = FALSE
    PROVE  Paired(Free, v)
BY DEF Paired, Free, Active

\* A string whose voice is not its member's is free when it is left.
LEMMA LeftPairs ==
    ASSUME NEW h, IsOwner(h), NEW v, IsVoice(v), Paired(h, v), NEW id,
           id.expr # Legacy, h.count > 0, h.id.expr = id.expr
    PROVE  Paired(Free, LeftBy(v, id))
<1>1. CASE v.id.expr = id.expr
  <2>1. LeftBy(v, id) = Silent \/ LeftBy(v, id).down = FALSE
    BY <1>1, LeftByIs
  <2> QED
    BY <2>1, EmptyString, FreePairs
<1>2. CASE v.id.expr # id.expr
  <2>1. LeftBy(v, id) = v
    BY <1>2, LeftByIs
  <2>2. ~Active(v)
    BY <1>2 DEF Paired
  <2> QED
    BY <2>1, <2>2, FreePairs
<1> QED
  BY <1>1, <1>2

\* A note finds its string's finger, and its member's other strings are free.
LEMMA TakeNoteFingers ==
    ASSUME NEW e, Fingered(e), NEW id, id # NoId, NEW s, NEW timing
    PROVE  Fingered(TakeNote(e, id, s, timing))
<1> DEFINE r == TakeNote(e, id, s, timing)
<1>1. /\ IsEngine(e) /\ OneFinger(e.held)
      /\ \A t \in Strings : /\ Paired(e.held[t], e.voice[t])
                            /\ IsOwner(e.held[t]) /\ IsVoice(e.voice[t])
  BY DEF Fingered, IsEngine
<1>2. TakesNote(e, id, s, r)
  BY <1>1, PlayOnIs, Zenon
<1> HIDE DEF r
<1>3. PICK w : /\ s \in Strings => Sounds(w, id)
               /\ \A t \in Strings :
                     /\ r.held[t] = PlayedHeld(e, id, s, t)
                     /\ r.voice[t] = PlayedVoice(e, id, s, t, w)
  BY <1>2 DEF TakesNote
<1>4. ASSUME NEW t \in Strings
      PROVE  Paired(r.held[t], r.voice[t])
  <2>1. CASE t = s
    <3>1. /\ r.held[t] = OneMore(e.held[t], id) /\ r.voice[t] = w
          /\ w.id = id /\ w.down = TRUE
      BY <1>3, <2>1 DEF PlayedHeld, PlayedVoice, Sounds
    <3>2. OneMore(e.held[t], id).id = id /\ OneMore(e.held[t], id).count > 0
      BY <1>1, OwnersCount
    <3> QED
      BY <3>1, <3>2 DEF Paired
  <2>2. CASE t # s /\ Leaves(e, id, t)
    <3>1. r.held[t] = Free /\ r.voice[t] = LeftBy(e.voice[t], id)
      BY <1>3, <2>2 DEF PlayedHeld, PlayedVoice
    <3>2. Paired(Free, LeftBy(e.voice[t], id))
      BY <1>1, <2>2, LeftPairs DEF Leaves
    <3> QED
      BY <3>1, <3>2
  <2>3. CASE t # s /\ ~Leaves(e, id, t)
    BY <1>1, <1>3, <2>3 DEF PlayedHeld, PlayedVoice
  <2> QED
    BY <2>1, <2>2, <2>3
<1>5. OneFinger(r.held)
  <2> SUFFICES ASSUME NEW t \in Strings, NEW u \in Strings,
                      r.held[t].count > 0, r.held[u].count > 0,
                      r.held[t].id.expr = r.held[u].id.expr,
                      r.held[t].id.expr # Legacy
               PROVE  t = u
    BY DEF OneFinger
  <2>1. ASSUME NEW x \in Strings, x # s, r.held[x].count > 0
        PROVE  r.held[x] = e.held[x] /\ ~Leaves(e, id, x)
    BY <1>3, <2>1 DEF PlayedHeld, Free
  <2>2. ASSUME NEW x \in Strings, x = s
        PROVE  r.held[x].id = id
    <3>1. r.held[x] = OneMore(e.held[x], id)
      BY <1>3, <2>2 DEF PlayedHeld
    <3>2. IsOwner(e.held[x])
      BY <1>1
    <3>3. OneMore(e.held[x], id).id = id
      BY <3>2, OwnersCount, Zenon
    <3> QED
      BY <3>1, <3>3
  <2>3. CASE t = s /\ u # s
    <3>1. /\ r.held[u] = e.held[u] /\ ~Leaves(e, id, u)
          /\ r.held[t].id = id
      BY <2>1, <2>2, <2>3
    <3> QED
      BY <3>1 DEF Leaves
  <2>4. CASE u = s /\ t # s
    <3>1. /\ r.held[t] = e.held[t] /\ ~Leaves(e, id, t)
          /\ r.held[u].id = id
      BY <2>1, <2>2, <2>4
    <3> QED
      BY <3>1 DEF Leaves
  <2>5. CASE t # s /\ u # s
    <3>1. r.held[t] = e.held[t] /\ r.held[u] = e.held[u]
      BY <2>1, <2>5
    <3> QED
      BY <1>1, <3>1 DEF OneFinger
  <2> QED
    BY <2>3, <2>4, <2>5
<1> QED
  BY <1>2, <1>4, <1>5 DEF Fingered, TakesNote, r

\* A Note Off frees the fingers of its own pitch.
LEMMA LiftFingersAgree ==
    ASSUME NEW e, Fingered(e), NEW id, id # NoId
    PROVE  Fingered(Lift(e, id))
<1> DEFINE r == Lift(e, id)
           f == LiftFingers(e, id)
           lifts(t) == /\ t \in Holders(e, id) /\ e.held[t].count <= 1
                       /\ e.voice[t].id = id
<1>1. /\ IsEngine(e) /\ OneFinger(e.held)
      /\ \A t \in Strings : /\ Paired(e.held[t], e.voice[t])
                            /\ IsOwner(e.held[t]) /\ IsVoice(e.voice[t])
  BY DEF Fingered, IsEngine
<1>2. /\ IsEngine(r)
      /\ \/ r.held = e.held /\ r.voice = e.voice
         \/ r.held = f.held /\ r.voice = f.voice
  BY <1>1, LiftIs
<1>3. \A t \in Strings :
         /\ f.held[t] = IF t \in Holders(e, id) THEN OneLess(e.held[t])
                        ELSE e.held[t]
         /\ f.voice[t] = IF lifts(t) THEN Stopped(e.voice[t]) ELSE e.voice[t]
  BY <1>1, LiftFingersIs
<1> HIDE DEF r, f
<1>4. ASSUME NEW t \in Strings
      PROVE  /\ Paired(f.held[t], f.voice[t])
             /\ f.held[t].count > 0 => /\ f.held[t].id = e.held[t].id
                                       /\ e.held[t].count > 0
  <2> DEFINE h == e.held[t]
             v == e.voice[t]
  <2>0. IsOwner(h) /\ IsVoice(v) /\ Paired(h, v) /\ h.count \in Nat
    BY <1>1 DEF IsOwner
  <2>1. CASE t \notin Holders(e, id)
    BY <1>3, <2>0, <2>1
  <2>2. CASE t \in Holders(e, id)
    <3>0. h.id = id /\ h.count > 0
      BY <2>0, <2>2 DEF Holders, Paired
    <3>1. CASE h.count > 1
      <4>1. f.held[t] = OneLess(h) /\ f.voice[t] = v
        BY <1>3, <2>0, <2>2, <3>1
      <4> HIDE DEF h, v
      <4>2. OneLess(h).id = h.id /\ OneLess(h).count > 0
        BY <2>0, <3>1, OwnersCount
      <4> QED
        BY <2>0, <3>0, <4>1, <4>2 DEF Paired, h
    <3>2. CASE ~(h.count > 1)
      <4>1. f.held[t] = OneLess(h)
            /\ f.voice[t] = IF v.id = id THEN Stopped(v) ELSE v
        BY <1>3, <2>0, <2>2, <3>2
      <4> HIDE DEF h, v
      <4>2. OneLess(h) = Free
        BY <2>0, <3>2, OwnersCount
      <4>3. Stopped(v) = Silent \/ Stopped(v).down = FALSE
        BY <2>0, StoppedIs
      <4>4. v.id # id => ~Active(v)
        BY <2>0, <3>0 DEF Paired
      <4>5. ~Active(f.voice[t]) \/ f.voice[t].down = FALSE
        BY <4>1, <4>3, <4>4, EmptyString
      <4>6. Paired(Free, f.voice[t])
        BY <4>5, FreePairs
      <4>7. f.held[t] = Free /\ ~(Free.count > 0)
        BY <4>1, <4>2 DEF Free
      <4> QED
        BY <4>6, <4>7
    <3> QED
      BY <3>1, <3>2
  <2> QED
    BY <2>1, <2>2
<1>5. \A t \in Strings : Paired(r.held[t], r.voice[t])
  BY <1>1, <1>2, <1>4
<1>6. OneFinger(r.held)
  <2>1. \A t \in Strings : r.held[t].count > 0 => /\ r.held[t].id = e.held[t].id
                                                /\ e.held[t].count > 0
    BY <1>2, <1>4
  <2> QED
    BY <1>1, <2>1 DEF OneFinger
<1> QED
  BY <1>2, <1>5, <1>6 DEF Fingered, r

\* A voice that keeps its pitch and its key keeps its finger; so does one
\* that falls silent.
LEMMA RevoicedFingers ==
    ASSUME NEW e, Fingered(e), NEW r, IsEngine(r), r.held = e.held,
           \A t \in Strings :
              \/ ~Active(r.voice[t])
              \/ r.voice[t].id = e.voice[t].id /\ r.voice[t].down = e.voice[t].down
              \/ /\ e.held[t].count > 0
                 /\ r.voice[t].id = e.held[t].id /\ r.voice[t].down = TRUE
    PROVE  Fingered(r)
<1>1. ASSUME NEW t \in Strings
      PROVE  Paired(r.held[t], r.voice[t])
  <2>1. Paired(e.held[t], e.voice[t]) /\ r.held[t] = e.held[t]
    BY DEF Fingered
  <2> QED
    BY <2>1 DEF Paired, Active
<1> QED
  BY <1>1 DEF Fingered

\* What a step may do to a voice and leave its finger alone.
Agrees(w, v, h) ==
    \/ ~Active(w)
    \/ w.id = v.id /\ w.down = v.down
    \/ h.count > 0 /\ w.id = h.id /\ w.down = TRUE

Fingers == client \in Clients /\ (client.chord < 2 => Fingered(engine))

\* An engine in which every key is up.
LEMMA AllUpFingers ==
    ASSUME NEW r, IsEngine(r), \A s \in Strings : r.held[s] = Free,
           \A s \in Strings : ~Active(r.voice[s]) \/ r.voice[s].down = FALSE
    PROVE  Fingered(r)
<1>1. \A s \in Strings : Paired(r.held[s], r.voice[s])
  BY FreePairs
<1>2. OneFinger(r.held)
  BY DEF OneFinger, Free
<1> QED
  BY <1>1, <1>2 DEF Fingered

\* The notes a client plays are notes.
LEMMA PlayedIsNote ==
    ASSUME client \in Clients, NEW id \in Played
    PROVE  id # NoId
<1>1. client.notes \in SUBSET Nat
  BY NeckAssumption DEF Client
<1>2. id.note \in Nat
  BY <1>1 DEF Played
<1> QED
  BY <1>2 DEF NoId

\* The instrument and the client are chosen once.
LEMMA ClientStays == [Next]_vars => client' = client
<1> SUFFICES ASSUME [Next]_vars PROVE client' = client
  OBVIOUS
<1>1. ASSUME NEW id \in Played, NoteOn(id) \/ NoteOff(id)
      PROVE  client' = client
  BY <1>1 DEF NoteOn, NoteOff
<1>2. ASSUME NEW ids, NEW repeats, NoteOnChord(ids, repeats)
      PROVE  client' = client
  BY <1>2 DEF NoteOnChord
<1>3. ASSUME NEW s \in Strings, RepickHeldString(s) PROVE client' = client
  BY <1>3 DEF RepickHeldString
<1>4. CASE PedalUp \/ PedalDown \/ AllNotesOff \/ Reset \/ Recover
  BY <1>4 DEF PedalUp, PedalDown, AllNotesOff, Reset, Recover
<1>5. ASSUME NEW p, SelectPlayStyle(p) PROVE client' = client
  BY <1>5 DEF SelectPlayStyle
<1>6. ASSUME NEW ss, SelectSolo(ss) PROVE client' = client
  BY <1>6 DEF SelectSolo
<1>7. ASSUME NEW s \in Strings, NEW again, Contact(s, again) \/ Retire(s)
      PROVE  client' = client
  BY <1>7 DEF Contact, Retire
<1>8. CASE UNCHANGED vars
  BY <1>8 DEF vars
<1>9. CASE Playing
  BY <1>1, <1>2, <1>3, <1>4, <1>5, <1>6, <1>9 DEF Playing
<1>10. CASE Rendering
  BY <1>4, <1>7, <1>10 DEF Rendering
<1> QED
  BY <1>8, <1>9, <1>10 DEF Next

\* Every step but a chord keeps the agreement.
LEMMA FingeredStep ==
    ASSUME client \in Clients, Fingered(engine), [Next]_vars,
           \A ids \in SUBSET Played : \A repeats \in SUBSET ids :
              NoteOnChord(ids, repeats) => Fingered(engine')
    PROVE  Fingered(engine')
<1>0. client \in Clients
  OBVIOUS
<1>b. /\ Fingered(engine) /\ IsEngine(engine)
      /\ \A s \in Strings : /\ IsVoice(engine.voice[s])
                            /\ IsOwner(engine.held[s])
  BY DEF Fingered, IsEngine
<1>1. ASSUME NEW id \in Played, NoteOn(id) PROVE Fingered(engine')
  <2>1. engine' \in PlayNote(engine, id)
    BY <1>1 DEF NoteOn
  <2>2. engine' = engine \/ \E s, timing : engine' = TakeNote(engine, id, s, timing)
    BY <2>1 DEF PlayNote
  <2>3. id # NoId
    BY <1>0, <1>1, PlayedIsNote
  <2> QED
    BY <1>b, <2>2, <2>3, TakeNoteFingers
<1>2. ASSUME NEW id \in Played, NoteOff(id) PROVE Fingered(engine')
  <2>1. engine' = Lift(engine, id) /\ id # NoId
    BY <1>0, <1>2, PlayedIsNote DEF NoteOff
  <2> QED
    BY <1>b, <2>1, LiftFingersAgree
<1>3. ASSUME NEW ids \in SUBSET Played, NEW repeats \in SUBSET ids,
             NoteOnChord(ids, repeats)
      PROVE  Fingered(engine')
  BY <1>3
<1>4. ASSUME NEW s \in Strings, RepickHeldString(s) PROVE Fingered(engine')
  <2>1. PICK timing \in Timings :
           engine' = PlayOn(engine, engine.held[s].id, s, timing, FALSE)
    BY <1>4 DEF RepickHeldString
  <2>2. engine.held[s].count > 0
    BY <1>4 DEF RepickHeldString
  <2>3. IsRepicked(engine, s, engine')
    BY <1>b, <2>1, <2>2, RepickIs
  <2>4. PICK w : /\ Sounds(w, engine.held[s].id)
                 /\ \A t \in Strings :
                       engine'.voice[t] = IF t = s THEN w ELSE engine.voice[t]
    BY <2>3 DEF IsRepicked
  <2>5. \A t \in Strings :
           Agrees(engine'.voice[t], engine.voice[t], engine.held[t])
    BY <2>2, <2>4 DEF Agrees, Sounds
  <2> QED
    BY <1>b, <2>3, <2>5, RevoicedFingers DEF IsRepicked, Agrees
<1>5. ASSUME NEW V, V = [s \in Strings |-> V[s]], AllRevoiced(engine, engine', V),
             \A s \in Strings : /\ IsVoice(V[s])
                                /\ Agrees(V[s], engine.voice[s], engine.held[s])
      PROVE  Fingered(engine')
  <2>1. IsEngine(engine') /\ engine'.held = engine.held /\ engine'.voice = V
    BY <1>b, <1>5, AllReplaced
  <2> QED
    BY <1>b, <1>5, <2>1, RevoicedFingers DEF Agrees
<1>6. ASSUME NEW s \in Strings, NEW w, IsVoice(w), engine' = Revoiced(engine, s, w),
             Agrees(w, engine.voice[s], engine.held[s])
      PROVE  Fingered(engine')
  <2>1. /\ IsEngine(engine') /\ engine'.held = engine.held
        /\ \A t \in Strings : engine'.voice[t] = IF t = s THEN w
                                                 ELSE engine.voice[t]
    BY <1>b, <1>6, VoiceReplaced
  <2>2. \A t \in Strings :
           Agrees(engine'.voice[t], engine.voice[t], engine.held[t])
    BY <1>6, <2>1 DEF Agrees
  <2> QED
    BY <1>b, <2>1, <2>2, RevoicedFingers DEF Agrees
<1>7. CASE PedalUp
  <2> DEFINE V == [s \in Strings |->
                     LET v == engine.voice[s]
                         left == IF pedal /\ v.sustained /\ ~v.down
                                 THEN Release(v) ELSE v
                     IN  [left EXCEPT !.sustained = FALSE]]
  <2>1. AllRevoiced(engine, engine', V)
    BY <1>7 DEF PedalUp, AllRevoiced
  <2>2. ASSUME NEW s \in Strings
        PROVE  IsVoice(V[s]) /\ Agrees(V[s], engine.voice[s], engine.held[s])
    <3> DEFINE v == engine.voice[s]
               left == IF pedal /\ v.sustained /\ ~v.down THEN Release(v) ELSE v
    <3>1. IsVoice(v)
      BY <1>b
    <3>2. V[s] = [left EXCEPT !.sustained = FALSE]
      OBVIOUS
    <3>3. left = Release(v) \/ left = v
      OBVIOUS
    <3> HIDE DEF V, left, v
    <3>4. /\ IsVoice(left)
          /\ left = Silent \/ (left.id = v.id /\ left.down = v.down)
      BY <3>1, <3>3, ReleaseIs
    <3>5. IsVoice(V[s]) /\ V[s].id = left.id /\ V[s].down = left.down
      BY <3>2, <3>4 DEF IsVoice, VoiceOf
    <3>6. ~Active(V[s]) \/ (V[s].id = v.id /\ V[s].down = v.down)
      BY <3>4, <3>5 DEF Active, Silent
    <3> QED
      BY <3>5, <3>6 DEF Agrees, v
  <2>3. V = [s \in Strings |-> V[s]]
    OBVIOUS
  <2> HIDE DEF V
  <2> QED
    BY <1>5, <2>1, <2>2, <2>3
<1>8. CASE AllNotesOff
  <2> DEFINE up(s) == [engine.voice[s] EXCEPT !.down = FALSE, !.sustained = FALSE]
             V == [s \in Strings |-> Release(up(s))]
  <2>1. AllRevoiced(Silenced, engine', V)
    BY <1>8 DEF AllNotesOff, AllRevoiced
  <2>2. ASSUME NEW s \in Strings
        PROVE  IsVoice(V[s]) /\ (~Active(V[s]) \/ V[s].down = FALSE)
    <3>1. IsVoice(up(s)) /\ up(s).down = FALSE
      BY <1>b DEF IsVoice, VoiceOf
    <3>2. V[s] = Release(up(s))
      OBVIOUS
    <3> HIDE DEF V, up
    <3> QED
      BY <3>1, <3>2, ReleaseIs, EmptyString
  <2>3. V = [s \in Strings |-> V[s]]
    OBVIOUS
  <2> HIDE DEF V
  <2>4. /\ IsEngine(engine') /\ engine'.voice = V
        /\ engine'.held = Silenced.held
    <3>1. \A s \in Strings : IsVoice(V[s])
      BY <2>2
    <3> QED
      BY SilencedIs, <2>1, <2>3, <3>1, AllReplaced
  <2> QED
    BY SilencedIs, <2>2, <2>4, AllUpFingers
<1>9. CASE Reset
  BY <1>9, SilencedIs, EmptyString, AllUpFingers DEF Reset
<1>10. ASSUME NEW s \in Strings, NEW again \in BOOLEAN, Contact(s, again)
       PROVE  Fingered(engine')
  <2> DEFINE v == engine.voice[s]
             landed == IF v.repick
                       THEN [v EXCEPT !.releasing = FALSE, !.repick = FALSE,
                                      !.waiting = again, !.ring = again]
                       ELSE [v EXCEPT !.waiting = FALSE, !.ring = FALSE]
  <2>1. engine' = Revoiced(engine, s, landed)
    BY <1>10 DEF Contact, Revoiced
  <2>2. IsVoice(v)
    BY <1>b
  <2> HIDE DEF v
  <2>3. IsVoice(landed) /\ landed.id = v.id /\ landed.down = v.down
    <3>1. CASE v.repick
      BY <2>2, <3>1 DEF IsVoice, VoiceOf
    <3>2. CASE ~v.repick
      BY <2>2, <3>2 DEF IsVoice, VoiceOf
    <3> QED
      BY <3>1, <3>2
  <2> HIDE DEF landed
  <2> QED
    BY <1>6, <2>1, <2>3 DEF Agrees, v
<1>11. ASSUME NEW s \in Strings, Retire(s) PROVE Fingered(engine')
  <2>1. engine' = Revoiced(engine, s, Silent)
    BY <1>11 DEF Retire, Revoiced
  <2> QED
    BY <1>6, <2>1, EmptyString DEF Agrees
<1>12. CASE Recover
  <2> DEFINE V == [s \in Strings |-> Silent]
  <2>1. AllRevoiced(engine, engine', V)
    BY <1>12 DEF Recover, AllRevoiced
  <2>2. /\ V = [s \in Strings |-> V[s]]
        /\ \A s \in Strings : V[s] = Silent
    OBVIOUS
  <2> HIDE DEF V
  <2> QED
    BY <1>5, <2>1, <2>2, EmptyString DEF Agrees
<1>13. ASSUME \/ PedalDown \/ UNCHANGED vars
              \/ \E x : SelectPlayStyle(x) \/ SelectSolo(x)
       PROVE  Fingered(engine')
  <2>1. engine' = engine
    BY <1>13 DEF PedalDown, SelectPlayStyle, SelectSolo, vars
  <2> QED
    BY <1>b, <2>1
<1> QED
  BY <1>1, <1>2, <1>3, <1>4, <1>7, <1>8, <1>9, <1>10, <1>11, <1>12, <1>13
  DEF Next, Playing, Rendering

\* Every step of a client who plays one note at a time keeps it.
LEMMA FingersStep == Fingers /\ [Next]_vars => Fingers'
<1> SUFFICES ASSUME Fingers, [Next]_vars PROVE Fingers'
  OBVIOUS
<1>1. client \in Clients /\ client' = client
  BY ClientStays DEF Fingers
<1> SUFFICES ASSUME client.chord < 2 PROVE Fingered(engine')
  BY <1>1 DEF Fingers
<1>2. Fingered(engine)
  BY DEF Fingers
<1>3. ASSUME NEW ids \in SUBSET Played, NEW repeats \in SUBSET ids,
             NoteOnChord(ids, repeats)
      PROVE  FALSE
  <2>1. client.chord \in Nat
    BY <1>1, NeckAssumption DEF Client
  <2>2. Cardinality(ids) + Cardinality(repeats) \in 2 .. client.chord
    BY <1>3 DEF NoteOnChord
  <2>3. IsFiniteSet(ids) /\ IsFiniteSet(repeats)
    BY <1>1, ChordsAreFinite
  <2>4. Cardinality(ids) \in Nat /\ Cardinality(repeats) \in Nat
    BY <2>3, FS_CardinalityType
  <2> QED
    BY <2>1, <2>2, <2>4
<1> QED
  BY <1>1, <1>2, <1>3, FingeredStep

LEMMA FingersStart == Init => Fingers
<1>1. Fingered(Silenced)
  BY SilencedIs, EmptyString, AllUpFingers
<1> QED
  BY <1>1 DEF Init, Fingers

\* Notes that come one at a time, on any channels, with any solo mask, pedal,
\* legato or repick, leave every sounding string in agreement with its durable
\* owner (noteOnInternal, noteOff, beginVoiceRelease, setSustainPedal).  A
\* chord may break it: see the README on the solo mask.
THEOREM SingleNotesAgree == Spec => [](client.chord < 2 => KeyDownMeansHeld)
<1>1. Fingers => (client.chord < 2 => KeyDownMeansHeld)
  BY DEF Fingers, Fingered, Paired, KeyDownMeansHeld
<1> QED
  BY <1>1, FingersStart, FingersStep, PTL DEF Spec

\* Notes that come one at a time give each member channel one finger: it owns
\* one string and keeps the key down on one (noteOnInternal).
THEOREM OneFingerPerMember == Spec => [](client.chord < 2 => OneStringPerMember)
<1>1. Fingers => (client.chord < 2 => OneStringPerMember)
  <2> SUFFICES ASSUME Fingered(engine),
                      NEW x \in Expressions, x # Legacy,
                      NEW s \in Strings, NEW t \in Strings
               PROVE  /\ /\ engine.held[s].count > 0
                         /\ engine.held[s].id.expr = x
                         /\ engine.held[t].count > 0
                         /\ engine.held[t].id.expr = x
                         => s = t
                      /\ /\ engine.voice[s].down /\ engine.voice[s].id.expr = x
                         /\ engine.voice[t].down /\ engine.voice[t].id.expr = x
                         => s = t
    BY DEF Fingers, OneStringPerMember
  <2>1. OneFinger(engine.held)
    BY DEF Fingered
  <2>2. ASSUME NEW u \in Strings, engine.voice[u].down,
               engine.voice[u].id.expr = x
        PROVE  engine.held[u].count > 0 /\ engine.held[u].id.expr = x
    <3>1. Active(engine.voice[u])
      BY <2>2 DEF Active, NoId
    <3>2. Paired(engine.held[u], engine.voice[u])
      BY DEF Fingered
    <3> QED
      BY <2>2, <3>1, <3>2 DEF Paired
  <2> QED
    BY <2>1, <2>2 DEF OneFinger
<1> QED
  BY <1>1, FingersStart, FingersStep, PTL DEF Spec

-----------------------------------------------------------------------------
(***************************************************************************)
(* Every owner of a pitch is owed a Note Off.                              *)
(***************************************************************************)

\* The k-th owner of a string is one of the pitch.
Holds(h, id, k) == h.id = id /\ k \in 1 .. h.count

\* Whose owners are counted.
LEMMA HeldByIs ==
    ASSUME NEW e, NEW id
    PROVE  /\ \A s, k : <<s, k>> \in HeldBy(e, id)
                           <=> s \in Strings /\ Holds(e.held[s], id, k)
           /\ \A p \in HeldBy(e, id) : p = <<p[1], p[2]>>
BY DEF HeldBy, Holders, Holds

\* The owners of a pitch can be counted.
LEMMA HeldIsFinite ==
    ASSUME NEW e, IsEngine(e), NEW id
    PROVE  /\ IsFiniteSet(HeldBy(e, id)) /\ Owners(e, id) \in Nat
           /\ IsFiniteSet(Holders(e, id)) /\ Cardinality(Holders(e, id)) \in Nat
<1> DEFINE F == [s \in Holders(e, id) |-> {s} \X (1 .. e.held[s].count)]
           U == {F[s] : s \in Holders(e, id)}
<1>1. IsFiniteSet(Holders(e, id))
  <2>1. Holders(e, id) \in SUBSET Strings
    BY DEF Holders
  <2> QED
    BY <2>1, NeckAssumption, FS_Subset, Zenon
<1>2. IsFiniteSet(U)
  <2>1. F \in Surjection(Holders(e, id), U)
    BY DEF Surjection
  <2> HIDE DEF F, U
  <2> QED
    BY <1>1, <2>1, FS_Surjection, Zenon
<1>3. ASSUME NEW T \in U
      PROVE  IsFiniteSet(T)
  <2>1. PICK s \in Holders(e, id) : T = {s} \X (1 .. e.held[s].count)
    OBVIOUS
  <2>2. e.held[s].count \in Nat
    BY DEF Holders, IsEngine, IsOwner
  <2>3. IsFiniteSet(1 .. e.held[s].count)
    <3>1. 1 \in Int /\ e.held[s].count \in Int
      BY <2>2
    <3> QED
      BY <3>1, FS_Interval, Zenon
  <2>4. IsFiniteSet({s})
    BY FS_Singleton, Zenon
  <2> QED
    BY <2>1, <2>3, <2>4, FS_Product, Zenon
<1>4. HeldBy(e, id) = UNION U
  BY DEF HeldBy
<1>5. IsFiniteSet(HeldBy(e, id))
  <2> HIDE DEF F, U
  <2> QED
    BY <1>2, <1>3, <1>4, FS_UNION
<1> QED
  BY <1>1, <1>5, FS_CardinalityType DEF Owners

\* Where nobody has come, there are no more owners.
LEMMA OwnersLeft ==
    ASSUME NEW e, IsEngine(e), NEW r, NEW id,
           \A s \in Strings : \A k : Holds(r.held[s], id, k) => Holds(e.held[s], id, k)
    PROVE  Owners(r, id) <= Owners(e, id)
<1>1. HeldBy(r, id) \subseteq HeldBy(e, id)
  <2> SUFFICES ASSUME NEW p \in HeldBy(r, id) PROVE p \in HeldBy(e, id)
    OBVIOUS
  <2>1. p = <<p[1], p[2]>>
    BY HeldByIs
  <2>2. p[1] \in Strings /\ Holds(r.held[p[1]], id, p[2])
    BY <2>1, HeldByIs
  <2>3. <<p[1], p[2]>> \in HeldBy(e, id)
    BY <2>2, HeldByIs
  <2> QED
    BY <2>1, <2>3
<1> QED
  BY <1>1, HeldIsFinite, FS_Subset DEF Owners

\* Where one has come, there is at most one owner more.
LEMMA OwnersTaken ==
    ASSUME NEW e, IsEngine(e), NEW r, NEW id, NEW x,
           \A s \in Strings : \A k : Holds(r.held[s], id, k) =>
              Holds(e.held[s], id, k) \/ <<s, k>> = x
    PROVE  Owners(r, id) <= Owners(e, id) + 1
<1>1. HeldBy(r, id) \in SUBSET (HeldBy(e, id) \cup {x})
  <2> SUFFICES ASSUME NEW p \in HeldBy(r, id), p # x
               PROVE  p \in HeldBy(e, id)
    OBVIOUS
  <2>1. p = <<p[1], p[2]>>
    BY HeldByIs
  <2>2. p[1] \in Strings /\ Holds(r.held[p[1]], id, p[2])
    BY <2>1, HeldByIs
  <2>3. Holds(e.held[p[1]], id, p[2])
    BY <2>1, <2>2
  <2>4. <<p[1], p[2]>> \in HeldBy(e, id)
    BY <2>2, <2>3, HeldByIs
  <2> QED
    BY <2>1, <2>4
<1>2. /\ IsFiniteSet(HeldBy(e, id) \cup {x})
      /\ Cardinality(HeldBy(e, id)) \in Nat
      /\ Cardinality(HeldBy(e, id) \cup {x}) <= Cardinality(HeldBy(e, id)) + 1
  <2>1. IsFiniteSet(HeldBy(e, id)) /\ Cardinality(HeldBy(e, id)) \in Nat
    BY HeldIsFinite DEF Owners
  <2> QED
    BY <2>1, FS_AddElement
<1>3. /\ IsFiniteSet(HeldBy(r, id))
      /\ Cardinality(HeldBy(r, id)) <= Cardinality(HeldBy(e, id) \cup {x})
  BY <1>1, <1>2, FS_Subset, Zenon
<1>4. /\ Cardinality(HeldBy(r, id)) \in Nat
      /\ Cardinality(HeldBy(e, id) \cup {x}) \in Nat
  BY <1>2, <1>3, FS_CardinalityType, Zenon
<1> QED
  BY <1>2, <1>3, <1>4 DEF Owners

\* A Note Off takes one owner from every string that holds the pitch.
LEMMA OwnersLifted ==
    ASSUME NEW e, IsEngine(e), NEW r, NEW id, id # NoId,
           \A s \in Holders(e, id) : e.held[s].count > 0,
           \A s \in Strings : r.held[s] = IF s \in Holders(e, id)
                                         THEN OneLess(e.held[s]) ELSE e.held[s]
    PROVE  Owners(r, id) + Cardinality(Holders(e, id)) <= Owners(e, id)
<1> DEFINE H == Holders(e, id)
           tops == [s \in H |-> <<s, e.held[s].count>>]
           T == {tops[s] : s \in H}
<1>0. /\ IsFiniteSet(H) /\ Cardinality(H) \in Nat
      /\ IsFiniteSet(HeldBy(e, id)) /\ Owners(e, id) \in Nat
  BY HeldIsFinite
<1>1. ASSUME NEW s \in H
      PROVE  s \in Strings /\ e.held[s].id = id /\ e.held[s].count \in Nat \ {0}
  BY DEF Holders, IsEngine, IsOwner
<1>2. IsFiniteSet(T) /\ Cardinality(T) = Cardinality(H)
  <2>1. tops \in Surjection(H, T)
    BY DEF Surjection
  <2>2. tops \in Injection(H, T)
    <3>1. \A s, t \in H : tops[s] = tops[t] => s = t
      OBVIOUS
    <3> QED
      BY <2>1, <3>1 DEF Surjection, Injection, IsInjective
  <2> HIDE DEF H, tops, T
  <2> QED
    BY <1>0, <2>1, <2>2, FS_Surjection, Zenon
<1>3. T \in SUBSET HeldBy(e, id)
  <2> SUFFICES ASSUME NEW s \in H PROVE <<s, e.held[s].count>> \in HeldBy(e, id)
    OBVIOUS
  <2>1. Holds(e.held[s], id, e.held[s].count)
    BY <1>1 DEF Holds
  <2> QED
    BY <1>1, <2>1, HeldByIs
<1>4. HeldBy(r, id) \in SUBSET (HeldBy(e, id) \ T)
  <2> SUFFICES ASSUME NEW p \in HeldBy(r, id)
               PROVE  p \in HeldBy(e, id) /\ p \notin T
    OBVIOUS
  <2> DEFINE s == p[1]
             k == p[2]
  <2>1. p = <<s, k>>
    BY HeldByIs
  <2>2. s \in Strings /\ Holds(r.held[s], id, k)
    BY <2>1, HeldByIs
  <2> HIDE DEF s, k
  <2>3. Holds(e.held[s], id, k) /\ s \in H /\ k < e.held[s].count
    <3>1. CASE s \in H
      <4>1. r.held[s] = OneLess(e.held[s])
        BY <2>2, <3>1
      <4>2. r.held[s] # Free
        BY <2>2 DEF Free, Holds
      <4>3. r.held[s] = [e.held[s] EXCEPT !.count = @ - 1]
        BY <4>1, <4>2 DEF OneLess
      <4>4. e.held[s] \in [id : {e.held[s].id}, count : Nat]
        BY <2>2 DEF IsEngine, IsOwner
      <4>5. r.held[s].count = e.held[s].count - 1
        BY <4>3, <4>4
      <4> QED
        BY <1>1, <2>2, <3>1, <4>5 DEF Holds
    <3>2. CASE s \notin H
      BY <2>2, <3>2 DEF Holds, Holders
    <3> QED
      BY <3>1, <3>2
  <2>4. p \in HeldBy(e, id)
    BY <2>1, <2>2, <2>3, HeldByIs
  <2>5. p \notin T
    <3> SUFFICES ASSUME NEW t \in H, p = <<t, e.held[t].count>>
                 PROVE  FALSE
      OBVIOUS
    <3>1. t = s /\ k = e.held[t].count
      BY <2>1
    <3> QED
      BY <1>1, <2>3, <3>1
  <2> QED
    BY <2>4, <2>5
<1>5. /\ IsFiniteSet(HeldBy(e, id) \ T)
      /\ Cardinality(HeldBy(e, id) \ T)
            = Cardinality(HeldBy(e, id)) - Cardinality(H)
  <2>1. HeldBy(e, id) \cap T = T
    BY <1>3
  <2> HIDE DEF H, T
  <2>2. /\ IsFiniteSet(HeldBy(e, id) \ T)
        /\ Cardinality(HeldBy(e, id) \ T)
              = Cardinality(HeldBy(e, id)) - Cardinality(HeldBy(e, id) \cap T)
    BY <1>0, FS_Difference, Zenon
  <2> QED
    BY <1>2, <2>1, <2>2
<1>6. Cardinality(HeldBy(r, id)) <= Cardinality(HeldBy(e, id) \ T)
  BY <1>4, <1>5, FS_Subset, Zenon
<1>7. IsFiniteSet(HeldBy(r, id)) /\ Cardinality(HeldBy(r, id)) \in Nat
  BY <1>4, <1>5, FS_Subset, FS_CardinalityType, Zenon
<1> HIDE DEF H, T
<1> QED
  BY <1>0, <1>5, <1>6, <1>7 DEF Owners, H

\* The owners of one string.
LEMMA RowIs ==
    ASSUME NEW s, NEW c \in Nat
    PROVE  IsFiniteSet({s} \X (1 .. c)) /\ Cardinality({s} \X (1 .. c)) = c
<1>1. IsFiniteSet(1 .. c) /\ Cardinality(1 .. c) = c
  <2>1. 1 \in Int /\ c \in Int
    OBVIOUS
  <2>2. Cardinality(1 .. c) = IF 1 > c THEN 0 ELSE c - 1 + 1
    BY <2>1, FS_Interval, Zenon
  <2>3. IsFiniteSet(1 .. c)
    BY <2>1, FS_Interval, Zenon
  <2> QED
    BY <2>2, <2>3
<1>2. IsFiniteSet({s}) /\ Cardinality({s}) = 1
  BY FS_Singleton, Zenon
<1>3. /\ IsFiniteSet({s} \X (1 .. c))
      /\ Cardinality({s} \X (1 .. c)) = Cardinality({s}) * Cardinality(1 .. c)
  BY <1>1, <1>2, FS_Product, Zenon
<1> QED
  BY <1>1, <1>2, <1>3

\* Every string that has a finger has an owner.
Counted(e) == \A s \in Strings : e.held[s] = Free \/ e.held[s].count > 0

\* The hand's change of shape gives no pitch more owners: a pitch that is
\* moved has the owners of its string alone afterwards.
LEMMA RefingeredOwes ==
    ASSUME NEW e, IsEngine(e), Counted(e), NEW ids, NoId \notin ids, NEW a
    PROVE  LET r == Refingered(e, ids, a) IN
           /\ IsEngine(r) /\ Counted(r)
           /\ r.outstanding = e.outstanding
           /\ \A id : id # NoId => Owners(r, id) <= Owners(e, id)
<1> DEFINE r == Refingered(e, ids, a)
           sources(i) == Holders(e, i) \ {a[i]}
           arriving(s) == {i \in ids : a[i] = s /\ sources(i) # {}}
           leaves(s, i) == /\ a[i] # s
                           /\ e.held[s].count > 0
                           /\ \/ e.held[s].id = i
                              \/ i.expr # Legacy /\ e.held[s].id.expr = i.expr
           taken(s) == \E i \in ids : a[i] = s /\ e.held[s].id # i
           first(s) == CHOOSE i \in arriving(s) : TRUE
           count(i) == e.held[Min(sources(i))].count
           owners(s) ==
               IF arriving(s) # {}
               THEN [id |-> first(s), count |-> count(first(s))]
               ELSE IF taken(s) \/ \E i \in ids : leaves(s, i) THEN Free
               ELSE e.held[s]
           H == [s \in Strings |-> owners(s)]
<1>1. r = [e EXCEPT !.held = H]
  BY DEF Refingered
<1>2. IsEngine(r)
  BY RefingeredIs
<1> HIDE DEF r
<1>3. r.held = H /\ r.outstanding = e.outstanding
  BY <1>1 DEF IsEngine
<1>4. \A s \in Strings : r.held[s] = owners(s)
  BY <1>3
<1>5. ASSUME NEW i \in ids, sources(i) # {}
      PROVE  /\ Min(sources(i)) \in Strings
             /\ e.held[Min(sources(i))].id = i
             /\ count(i) \in Nat /\ count(i) > 0
  <2>1. sources(i) \in SUBSET Nat
    BY StringsAreNumbers DEF Holders
  <2>2. Min(sources(i)) \in Holders(e, i)
    <3>1. Min(sources(i)) \in sources(i)
      <4> HIDE DEF sources
      <4> QED
        BY <1>5, <2>1, MinIsIn
    <3> QED
      BY <3>1
  <2> DEFINE m == Min(sources(i))
  <2>3. m \in Strings /\ e.held[m].id = i
    BY <2>2 DEF Holders
  <2> HIDE DEF m
  <2>4. e.held[m].count \in Nat /\ e.held[m].count > 0
    <3>1. e.held[m] # Free
      BY <2>3 DEF Free
    <3> QED
      BY <2>3, <3>1 DEF Counted, IsEngine, IsOwner
  <2> QED
    BY <2>3, <2>4 DEF m
<1>6. \A s : arriving(s) # {} => /\ first(s) \in ids
                                 /\ a[first(s)] = s /\ sources(first(s)) # {}
  OBVIOUS
<1>9. ASSUME NEW s \in Strings
      PROVE  /\ arriving(s) # {} => /\ r.held[s].id = first(s)
                                    /\ r.held[s].count = count(first(s))
             /\ arriving(s) = {} =>
                   \/ r.held[s] = Free
                   \/ r.held[s] = e.held[s] /\ ~\E i \in ids : leaves(s, i)
  <2>1. r.held[s] = owners(s)
    BY <1>4
  <2> HIDE DEF H, first, count, arriving, taken, leaves
  <2> QED
    BY <2>1
<1> HIDE DEF H, first, count, owners
<1>7. Counted(r)
  <2> SUFFICES ASSUME NEW s \in Strings
               PROVE  r.held[s] = Free \/ r.held[s].count > 0
    BY DEF Counted
  <2>1. r.held[s] = Free \/ r.held[s] = e.held[s]
        \/ (arriving(s) # {} /\ r.held[s].count = count(first(s)))
    BY <1>9
  <2>2. arriving(s) # {} => count(first(s)) > 0
    BY <1>5, <1>6
  <2> QED
    BY <2>1, <2>2 DEF Counted
<1>8. ASSUME NEW id, id # NoId
      PROVE  Owners(r, id) <= Owners(e, id)
  <2>1. CASE id \in ids /\ sources(id) # {}
    <3> DEFINE m == Min(sources(id))
               c == count(id)
    <3>1. m \in Strings /\ e.held[m].id = id /\ c \in Nat
          /\ c = e.held[m].count
      BY <1>5, <2>1 DEF count
    <3>2. ASSUME NEW s \in Strings, NEW k, Holds(r.held[s], id, k)
          PROVE  s = a[id] /\ k \in 1 .. c
      <4>1. CASE arriving(s) # {}
        <5>1. r.held[s].id = first(s) /\ r.held[s].count = count(first(s))
          BY <1>9, <4>1
        <5>2. first(s) = id
          BY <3>2, <5>1 DEF Holds
        <5>3. a[id] = s
          BY <1>6, <4>1, <5>2
        <5> HIDE DEF arriving, sources
        <5> QED
          BY <3>2, <5>1, <5>2, <5>3 DEF Holds
      <4>2. CASE arriving(s) = {} /\ r.held[s] = Free
        BY <3>2, <4>2 DEF Holds, Free
      <4>3. CASE arriving(s) = {} /\ r.held[s] = e.held[s] /\ ~leaves(s, id)
        <5>1. e.held[s].id = id /\ e.held[s].count > 0
          BY <3>2, <4>3 DEF Holds, IsEngine, IsOwner
        <5>2. a[id] = s
          BY <4>3, <5>1
        <5>3. id \in arriving(s)
          BY <2>1, <5>2
        <5> QED
          BY <4>3, <5>3
      <4> QED
        BY <1>9, <2>1, <4>1, <4>2, <4>3
    <3> HIDE DEF c, m, sources
    <3>3. HeldBy(r, id) \in SUBSET ({a[id]} \X (1 .. c))
      <4> SUFFICES ASSUME NEW p \in HeldBy(r, id)
                   PROVE  p \in {a[id]} \X (1 .. c)
        OBVIOUS
      <4>1. p = <<p[1], p[2]>>
        BY HeldByIs
      <4>2. p[1] \in Strings /\ Holds(r.held[p[1]], id, p[2])
        BY <4>1, HeldByIs
      <4>3. p[1] = a[id] /\ p[2] \in 1 .. c
        BY <3>2, <4>2
      <4> QED
        BY <4>1, <4>3
    <3>4. {m} \X (1 .. c) \in SUBSET HeldBy(e, id)
      <4> SUFFICES ASSUME NEW p \in {m} \X (1 .. c)
                   PROVE  p \in HeldBy(e, id)
        OBVIOUS
      <4>1. p = <<m, p[2]>> /\ p[2] \in 1 .. c
        OBVIOUS
      <4>2. Holds(e.held[m], id, p[2])
        BY <3>1, <4>1 DEF Holds
      <4>3. <<m, p[2]>> \in HeldBy(e, id)
        BY <3>1, <4>2, HeldByIs
      <4> QED
        BY <4>1, <4>3
    <3>5. Owners(r, id) <= c
      <4>1. /\ IsFiniteSet({a[id]} \X (1 .. c))
            /\ Cardinality({a[id]} \X (1 .. c)) = c
        BY <3>1, RowIs, Zenon
      <4>2. Cardinality(HeldBy(r, id)) <= Cardinality({a[id]} \X (1 .. c))
        BY <3>3, <4>1, FS_Subset, Zenon
      <4> QED
        BY <4>1, <4>2 DEF Owners
    <3>6. c <= Owners(e, id)
      <4>1. /\ IsFiniteSet({m} \X (1 .. c))
            /\ Cardinality({m} \X (1 .. c)) = c
        BY <3>1, RowIs, Zenon
      <4>2. IsFiniteSet(HeldBy(e, id))
        BY HeldIsFinite
      <4>3. Cardinality({m} \X (1 .. c)) <= Cardinality(HeldBy(e, id))
        BY <3>4, <4>2, FS_Subset, Zenon
      <4> QED
        BY <4>1, <4>3 DEF Owners
    <3>7. Owners(r, id) \in Nat /\ Owners(e, id) \in Nat
      BY <1>2, HeldIsFinite
    <3> QED
      BY <3>1, <3>5, <3>6, <3>7
  <2>2. CASE ~(id \in ids /\ sources(id) # {})
    <3>1. ASSUME NEW s \in Strings, NEW k, Holds(r.held[s], id, k)
          PROVE  Holds(e.held[s], id, k)
      <4>1. CASE arriving(s) # {}
        <5>1. r.held[s].id = first(s)
          BY <1>9, <4>1
        <5>2. first(s) = id
          BY <3>1, <5>1 DEF Holds
        <5> QED
          BY <1>6, <2>2, <4>1, <5>2
      <4>2. CASE r.held[s] = Free
        BY <3>1, <4>2 DEF Holds, Free
      <4>3. CASE r.held[s] = e.held[s]
        BY <3>1, <4>3
      <4> QED
        BY <1>9, <4>1, <4>2, <4>3
    <3> QED
      BY <3>1, OwnersLeft
  <2> QED
    BY <2>1, <2>2
<1> QED
  BY <1>2, <1>3, <1>7, <1>8 DEF r

\* A note on a string is owed one Note Off more.
LEMMA PlayOnOutstanding ==
    ASSUME NEW e, IsEngine(e), NEW id, NEW s, NEW timing
    PROVE  TakeNote(e, id, s, timing).outstanding
             = [e.outstanding EXCEPT ![id] = @ + 1]
<1> DEFINE begun == Begun(e.voice[s], id, playStyle, timing)
           struck == Revoiced(e, s, begun)
           moved == MemberMoves(struck, id, s)
           owned == BindOwner(moved, id, s)
           w == [owned.voice[s] EXCEPT !.down = owned.held[s].count > 0]
           r == Revoiced(owned, s, w)
<1>1. TakeNote(e, id, s, timing) = r
  BY DEF TakeNote, PlayOn, Revoiced
<1>2. s \in Strings => Sounds(begun, id)
  <2> SUFFICES ASSUME s \in Strings PROVE Sounds(begun, id)
    OBVIOUS
  <2>1. IsVoice(e.voice[s])
    BY DEF IsEngine
  <2>2. /\ IsVoice(Begun(e.voice[s], id, playStyle, timing))
        /\ Begun(e.voice[s], id, playStyle, timing).id = id
        /\ Begun(e.voice[s], id, playStyle, timing).down = TRUE
    BY <2>1, BegunIs, Zenon
  <2> QED
    BY <2>2 DEF Sounds
<1> HIDE DEF begun, w
<1>3. IsEngine(struck) /\ struck.outstanding = e.outstanding
  <2>1. struck.outstanding = e.outstanding
    BY DEF Revoiced, IsEngine
  <2> QED
    BY <1>2, <2>1, VoiceReplaced DEF Sounds
<1> HIDE DEF struck
<1>4. IsEngine(moved) /\ moved.outstanding = struck.outstanding
  <2>1. \E H, V : moved = [struck EXCEPT !.held = H, !.voice = V]
    BY DEF MemberMoves
  <2> HIDE DEF moved
  <2>2. moved.outstanding = struck.outstanding
    BY <1>3, <2>1 DEF IsEngine
  <2> QED
    BY <1>3, <2>2, MemberMovesIs DEF moved
<1> HIDE DEF moved
<1>5. IsEngine(owned) /\ owned.outstanding = [moved.outstanding EXCEPT ![id] = @ + 1]
  <2> DEFINE O == [moved.outstanding EXCEPT ![id] = @ + 1]
  <2>1. \E H, B : owned = [moved EXCEPT !.outstanding = O, !.broadcast = B, !.held = H]
    BY <1>4 DEF BindOwner, IsEngine
  <2> HIDE DEF owned, O
  <2>2. owned.outstanding = O
    BY <1>4, <2>1 DEF IsEngine
  <2> QED
    BY <1>4, <2>2, BindOwnerIs DEF owned, O
<1> HIDE DEF owned
<1>6. r.outstanding = owned.outstanding
  BY <1>5 DEF Revoiced, IsEngine
<1> HIDE DEF r
<1> QED
  BY <1>1, <1>3, <1>4, <1>5, <1>6

\* What every engine keeps: the owners of a pitch never outnumber the Note
\* Offs that are expected for it.
Owing(e) ==
    /\ IsEngine(e)
    /\ Counted(e)
    /\ e.outstanding \in [Ids -> Nat]
    /\ \A id \in Ids : Owners(e, id) <= e.outstanding[id]

\* One note on: at most one Note Off more is expected, for that pitch.
Took(e, r, id) ==
    /\ Owing(r)
    /\ \A j \in Ids : r.outstanding[j] <= e.outstanding[j]
                                          + (IF j = id THEN 1 ELSE 0)

\* An identity is a note's.
LEMMA IdsAreNotes == \A id \in Ids : id # NoId
<1> SUFFICES ASSUME NEW id \in Ids PROVE id # NoId
  OBVIOUS
<1>1. id.note \in UNION {c.notes : c \in Clients}
  BY DEF Ids
<1>2. \A c \in Clients : c.notes \in SUBSET Nat
  BY NeckAssumption DEF Client
<1>3. id.note \in Nat
  BY <1>1, <1>2
<1> QED
  BY <1>3 DEF NoId

\* A note adds one owner at most, and one expected Note Off.
LEMMA TakeNoteOwes ==
    ASSUME NEW e, Owing(e), NEW id \in Ids, NEW s, NEW timing
    PROVE  Took(e, TakeNote(e, id, s, timing), id)
<1> DEFINE r == TakeNote(e, id, s, timing)
<1>1. /\ IsEngine(e) /\ Counted(e) /\ e.outstanding \in [Ids -> Nat]
      /\ \A j \in Ids : Owners(e, j) <= e.outstanding[j]
  BY DEF Owing
<1>2. r.outstanding = [e.outstanding EXCEPT ![id] = @ + 1]
  BY <1>1, PlayOnOutstanding
<1>3. TakesNote(e, id, s, r)
  BY <1>1, PlayOnIs, Zenon
<1> HIDE DEF r
<1>4. IsEngine(r) /\ \A t \in Strings : r.held[t] = PlayedHeld(e, id, s, t)
  BY <1>3 DEF TakesNote
<1>5. ASSUME NEW t \in Strings
      PROVE  /\ r.held[t] = Free \/ r.held[t] = e.held[t]
                \/ (t = s /\ r.held[t] = OneMore(e.held[t], id))
             /\ OneMore(e.held[t], id).id = id /\ OneMore(e.held[t], id).count > 0
  <2>1. IsOwner(e.held[t])
    BY <1>1 DEF IsEngine
  <2>2. OneMore(e.held[t], id).id = id /\ OneMore(e.held[t], id).count > 0
    BY <2>1, OwnersCount, Zenon
  <2> QED
    BY <1>4, <2>2 DEF PlayedHeld
<1>6. Counted(r)
  BY <1>1, <1>5 DEF Counted
<1>7. ASSUME NEW j \in Ids, j # id
      PROVE  Owners(r, j) <= Owners(e, j)
  <2>1. ASSUME NEW t \in Strings, NEW k, Holds(r.held[t], j, k)
        PROVE  Holds(e.held[t], j, k)
    <3>1. r.held[t] # Free
      BY <2>1 DEF Holds, Free
    <3> QED
      BY <1>5, <1>7, <2>1, <3>1 DEF Holds
  <2> QED
    BY <1>1, <2>1, OwnersLeft
<1>8. Owners(r, id) <= Owners(e, id) + 1
  <2> DEFINE n == OneMore(e.held[s], id).count
             x == <<s, n>>
  <2>1. ASSUME NEW t \in Strings, NEW k, Holds(r.held[t], id, k)
        PROVE  Holds(e.held[t], id, k) \/ <<t, k>> = x
    <3>1. r.held[t] # Free
      BY <2>1 DEF Holds, Free
    <3>2. CASE r.held[t] = e.held[t]
      BY <2>1, <3>2
    <3>3. CASE t = s /\ r.held[t] = OneMore(e.held[t], id)
      <4>1. e.held[s] \in [id : {e.held[s].id}, count : Nat]
        BY <1>1, <3>3 DEF IsEngine, IsOwner
      <4>2. CASE e.held[s].id = id
        <5>1. OneMore(e.held[s], id) = [e.held[s] EXCEPT !.count = @ + 1]
          BY <4>2 DEF OneMore
        <5>2. n = e.held[s].count + 1
          BY <4>1, <5>1
        <5>3. k \in 1 .. n
          BY <2>1, <3>3 DEF Holds
        <5> HIDE DEF n
        <5>4. k = n \/ k \in 1 .. e.held[s].count
          BY <4>1, <5>2, <5>3
        <5> QED
          BY <3>3, <4>2, <5>4 DEF Holds
      <4>3. CASE e.held[s].id # id
        <5>1. n = 1
          BY <4>3 DEF OneMore
        <5>2. k \in 1 .. n
          BY <2>1, <3>3 DEF Holds
        <5> QED
          BY <3>3, <5>1, <5>2
      <4> QED
        BY <4>2, <4>3
    <3> QED
      BY <1>5, <3>1, <3>2, <3>3
  <2> HIDE DEF x
  <2> QED
    BY <1>1, <2>1, OwnersTaken
<1>9. \A j \in Ids : Owners(e, j) \in Nat /\ Owners(r, j) \in Nat
  BY <1>1, <1>4, HeldIsFinite
<1>10. /\ r.outstanding \in [Ids -> Nat]
       /\ \A j \in Ids : r.outstanding[j] = e.outstanding[j]
                                            + (IF j = id THEN 1 ELSE 0)
  BY <1>1, <1>2
<1>11. \A j \in Ids : Owners(r, j) <= r.outstanding[j]
  BY <1>1, <1>7, <1>8, <1>9, <1>10
<1>12. \A j \in Ids : r.outstanding[j] \in Nat /\ e.outstanding[j] \in Nat
  BY <1>1, <1>10
<1> QED
  BY <1>4, <1>6, <1>10, <1>11, <1>12 DEF Took, Owing, r

\* So does a note that no string can play.
LEMMA PlayNoteOwes ==
    ASSUME NEW e, Owing(e), NEW id \in Ids, NEW r \in PlayNote(e, id)
    PROVE  Took(e, r, id)
<1>1. r = e \/ \E s, timing : r = TakeNote(e, id, s, timing)
  <2> DEFINE strings == ChooseString(e, id, playStyle)
  <2>1. PlayNote(e, id) = IF strings = {} THEN {e}
                          ELSE {TakeNote(e, id, s, timing) :
                                   s \in strings, timing \in Timings}
    BY DEF PlayNote
  <2> HIDE DEF strings
  <2> QED
    BY <2>1
<1>2. CASE r = e
  <2>1. \A j \in Ids : e.outstanding[j] \in Nat
    BY DEF Owing
  <2> QED
    BY <1>2, <2>1 DEF Took
<1> QED
  BY <1>1, <1>2, TakeNoteOwes, Zenon

\* A change of shape expects no other Note Offs.
LEMMA RefingeringOwes ==
    ASSUME NEW e, Owing(e), NEW ids \in SUBSET Ids, NEW a
    PROVE  /\ Owing(Refingered(e, ids, a))
           /\ Refingered(e, ids, a).outstanding = e.outstanding
<1> DEFINE r == Refingered(e, ids, a)
<1>1. /\ IsEngine(e) /\ Counted(e) /\ e.outstanding \in [Ids -> Nat]
      /\ \A j \in Ids : Owners(e, j) <= e.outstanding[j]
  BY DEF Owing
<1>2. NoId \notin ids
  BY IdsAreNotes
<1>3. /\ IsEngine(r) /\ Counted(r) /\ r.outstanding = e.outstanding
      /\ \A id : id # NoId => Owners(r, id) <= Owners(e, id)
  BY <1>1, <1>2, RefingeredOwes
<1> HIDE DEF r
<1>4. \A j \in Ids : Owners(e, j) \in Nat /\ Owners(r, j) \in Nat
  BY <1>1, <1>3, HeldIsFinite
<1>5. \A j \in Ids : Owners(r, j) <= r.outstanding[j]
  BY <1>1, <1>3, <1>4, IdsAreNotes
<1>6. Owing(r)
  BY <1>1, <1>3, <1>5 DEF Owing
<1> QED
  BY <1>3, <1>6 DEF r

\* The pitches of a chord come in order, each of them once.
LEMMA CanonicalOnce ==
    ASSUME NEW ids \in SUBSET Ids, IsFiniteSet(ids)
    PROVE  /\ Cardinality(ids) \in Nat
           /\ Canonical(ids) \in [1 .. Cardinality(ids) -> ids]
           /\ \A m, n \in 1 .. Cardinality(ids) :
                 Canonical(ids)[m] = Canonical(ids)[n] => m = n
<1> DEFINE K == Cardinality(ids)
           below(i) == {j \in ids : Lower(j, i)}
           rank(i) == Cardinality(below(i))
<1>1. K \in Nat
  BY FS_CardinalityType
<1>2. \A i \in Ids : /\ i.note \in Int /\ i.expr \in Int
                     /\ i = [note |-> i.note, expr |-> i.expr]
  <2> SUFFICES ASSUME NEW i \in Ids
               PROVE  /\ i.note \in Int /\ i.expr \in Int
                      /\ i = [note |-> i.note, expr |-> i.expr]
    OBVIOUS
  <2>1. /\ i.note \in UNION {c.notes : c \in Clients}
        /\ i.expr \in UNION {c.expressions : c \in Clients}
        /\ i = [note |-> i.note, expr |-> i.expr]
    BY DEF Ids, Expressions
  <2>2. \A c \in Clients : c.notes \in SUBSET Nat /\ c.expressions \in SUBSET Nat
    BY NeckAssumption DEF Client
  <2>3. i.note \in Nat /\ i.expr \in Nat
    BY <2>1, <2>2
  <2> QED
    BY <2>1, <2>3
<1>3. \A i \in ids : IsFiniteSet(below(i)) /\ rank(i) \in 0 .. K - 1
  <2> SUFFICES ASSUME NEW i \in ids
               PROVE  IsFiniteSet(below(i)) /\ rank(i) \in 0 .. K - 1
    OBVIOUS
  <2>1. below(i) \in SUBSET (ids \ {i})
    BY <1>2 DEF Lower
  <2>2. IsFiniteSet(ids \ {i}) /\ Cardinality(ids \ {i}) = K - 1
    BY FS_RemoveElement
  <2> HIDE DEF below, K
  <2>3. IsFiniteSet(below(i)) /\ rank(i) <= Cardinality(ids \ {i})
    BY <2>1, <2>2, FS_Subset, Zenon
  <2>4. rank(i) \in Nat
    BY <2>3, FS_CardinalityType, Zenon
  <2> QED
    BY <1>1, <2>2, <2>3, <2>4
<1>4. ASSUME NEW i \in ids, NEW j \in ids, Lower(i, j)
      PROVE  rank(i) < rank(j)
  <2>1. below(i) \in SUBSET below(j) /\ i \in below(j) /\ i \notin below(i)
    BY <1>2, <1>4 DEF Lower
  <2> HIDE DEF below
  <2>2. rank(i) <= rank(j) /\ (rank(i) = rank(j) => below(i) = below(j))
    BY <1>3, <2>1, FS_Subset, Zenon
  <2> QED
    BY <1>3, <2>1, <2>2
<1> DEFINE f == [i \in ids |-> rank(i)]
<1>5. \A i, j \in ids : f[i] = f[j] => i = j
  <2> SUFFICES ASSUME NEW i \in ids, NEW j \in ids, i # j
               PROVE  f[i] # f[j]
    OBVIOUS
  <2>1. Lower(i, j) \/ Lower(j, i)
    BY <1>2 DEF Lower
  <2>2. rank(i) \in Int /\ rank(j) \in Int
    <3>1. rank(i) \in 0 .. K - 1 /\ rank(j) \in 0 .. K - 1
      BY <1>3
    <3> HIDE DEF rank, K
    <3> QED
      BY <3>1
  <2> HIDE DEF rank
  <2> QED
    BY <1>4, <2>1, <2>2
<1>6. f \in [ids -> 0 .. K - 1]
  <2>1. \A i \in ids : rank(i) \in 0 .. K - 1
    BY <1>3
  <2> HIDE DEF rank, K
  <2> QED
    BY <2>1
<1>7. IsFiniteSet(0 .. K - 1) /\ Cardinality(0 .. K - 1) = K
  <2>1. 0 \in Int /\ K - 1 \in Int
    BY <1>1
  <2> HIDE DEF K
  <2>2. IsFiniteSet(0 .. K - 1)
    BY <2>1, FS_Interval, Zenon
  <2>3. Cardinality(0 .. K - 1) = IF 0 > K - 1 THEN 0 ELSE (K - 1) - 0 + 1
    BY <2>1, FS_Interval, Zenon
  <2> QED
    BY <1>1, <2>2, <2>3
<1>8. f \in Surjection(ids, 0 .. K - 1)
  <2> HIDE DEF f, rank
  <2>1. f \in Injection(ids, 0 .. K - 1)
    BY <1>5, <1>6 DEF Injection, IsInjective
  <2> QED
    BY <1>7, <2>1, FS_Injection, Zenon
<1> DEFINE C == Canonical(ids)
<1>9. \A n \in 1 .. K : C[n] \in ids /\ rank(C[n]) = n - 1
  <2> SUFFICES ASSUME NEW n \in 1 .. K
               PROVE  C[n] \in ids /\ rank(C[n]) = n - 1
    OBVIOUS
  <2>1. C[n] = CHOOSE i \in ids : rank(i) = n - 1
    BY DEF Canonical
  <2> HIDE DEF C, rank, K
  <2>2. n - 1 \in 0 .. K - 1
    BY <1>1
  <2>3. \E i \in ids : rank(i) = n - 1
    <3>1. \E i \in ids : f[i] = n - 1
      <4> HIDE DEF f
      <4> QED
        BY <1>8, <2>2 DEF Surjection
    <3> QED
      BY <3>1
  <2> QED
    BY <2>1, <2>3
<1>10. C = [n \in 1 .. K |-> C[n]]
  <2> DEFINE F(n) == CHOOSE i \in ids : rank(i) = n - 1
  <2>1. C = [n \in 1 .. K |-> F(n)]
    BY DEF Canonical
  <2> HIDE DEF F, C
  <2> QED
    BY <2>1
<1> HIDE DEF C, rank, K
<1>11. C \in [1 .. K -> ids]
  BY <1>9, <1>10
<1>12. \A m, n \in 1 .. K : C[m] = C[n] => m = n
  <2> SUFFICES ASSUME NEW m \in 1 .. K, NEW n \in 1 .. K, C[m] = C[n]
               PROVE  m = n
    OBVIOUS
  <2>1. m - 1 = n - 1
    BY <1>9
  <2> QED
    BY <1>1, <2>1
<1> QED
  BY <1>1, <1>11, <1>12 DEF C, K

\* A pitch is in a set once or not at all.
Once(ids, j) == IF j \in ids THEN 1 ELSE 0

\* A pitch is one of the first m of k events.
Reached(C, k, j, m) == \E n \in 1 .. k : n <= m /\ C[n] = j

\* How many of a chord's first m events are a pitch's: the k first are C, and
\* the l others D.
StruckSoFar(C, k, D, l, j, m) ==
    (IF Reached(C, k, j, m) THEN 1 ELSE 0)
        + (IF Reached(D, l, j, m - k) THEN 1 ELSE 0)

\* The next event is one that was not struck before.
LEMMA NextIsStruck ==
    ASSUME NEW k \in Nat, NEW l \in Nat, NEW C, NEW D,
           \A m, n \in 1 .. k : C[m] = C[n] => m = n,
           \A m, n \in 1 .. l : D[m] = D[n] => m = n,
           NEW m \in 0 .. k + l, m < k + l, NEW id,
           m < k => id = C[m + 1],
           ~(m < k) => id = D[m + 1 - k],
           NEW j
    PROVE  StruckSoFar(C, k, D, l, j, m) + (IF j = id THEN 1 ELSE 0)
             <= StruckSoFar(C, k, D, l, j, m + 1)
<1>1. Reached(C, k, j, m) => Reached(C, k, j, m + 1)
  BY DEF Reached
<1>2. Reached(D, l, j, m - k) => Reached(D, l, j, m + 1 - k)
  BY DEF Reached
<1>3. CASE j # id
  BY <1>1, <1>2, <1>3 DEF StruckSoFar
<1>4. CASE j = id /\ m < k
  <2>1. Reached(C, k, j, m + 1) /\ ~Reached(C, k, j, m)
    BY <1>4 DEF Reached
  <2> QED
    BY <1>2, <1>4, <2>1 DEF StruckSoFar
<1>5. CASE j = id /\ ~(m < k)
  <2>1. m + 1 - k \in 1 .. l
    BY <1>5
  <2>2. Reached(D, l, j, m + 1 - k) /\ ~Reached(D, l, j, m - k)
    BY <1>5, <2>1 DEF Reached
  <2> QED
    BY <1>1, <1>5, <2>2 DEF StruckSoFar
<1> QED
  BY <1>3, <1>4, <1>5

\* A chord that fits the neck adds to each of its pitches what is due for it.
LEMMA PlayShapeOwes ==
    ASSUME NEW e, Owing(e), NEW ids \in SUBSET Ids, NEW repeats \in SUBSET Ids,
           IsFiniteSet(ids), IsFiniteSet(repeats), NEW a,
           NEW r \in PlayShape(e, ids, repeats, a)
    PROVE  /\ Owing(r)
           /\ \A j \in Ids : r.outstanding[j] <= e.outstanding[j]
                                + Once(ids, j) + Once(repeats, j)
<1> DEFINE events == ShapeEvents(ids, repeats)
           N == Len(events)
           C == Canonical(ids)
           D == Canonical(repeats)
           k == Cardinality(ids)
           l == Cardinality(repeats)
           rose(j, m) == StruckSoFar(C, k, D, l, j, m)
<1>1. /\ k \in Nat /\ C \in [1 .. k -> ids]
      /\ \A m, n \in 1 .. k : C[m] = C[n] => m = n
  BY CanonicalOnce
<1>2. /\ l \in Nat /\ D \in [1 .. l -> repeats]
      /\ \A m, n \in 1 .. l : D[m] = D[n] => m = n
  BY CanonicalOnce
<1>3. PICK struck : ShapeWalk(e, ids, repeats, a, struck) /\ r \in struck[N]
  BY ShapeIsWalked
<1> HIDE DEF C, D, k, l
<1>4. /\ N = k + l
      /\ \A n \in 1 .. N : /\ n <= k => events[n] = C[n]
                           /\ ~(n <= k) => events[n] = D[n - k]
                           /\ events[n] \in Ids
  <2>1. C \in Seq(ids) /\ Len(C) = k
    BY <1>1, SeqDef
  <2>2. D \in Seq(repeats) /\ Len(D) = l
    BY <1>2, SeqDef
  <2>3. C \in Seq(Ids) /\ D \in Seq(Ids)
    BY <2>1, <2>2, SeqMonotonic
  <2>4. events = C \o D
    BY DEF ShapeEvents, C, D
  <2> HIDE DEF events
  <2>5. /\ events \in Seq(Ids) /\ Len(events) = k + l
        /\ \A n \in 1 .. k + l : events[n] = IF n <= k THEN C[n] ELSE D[n - k]
    BY <2>1, <2>2, <2>3, <2>4, ConcatProperties
  <2> QED
    BY <2>5
<1> DEFINE G == {m \in 0 .. N : \A f \in struck[m] :
                    /\ Owing(f)
                    /\ \A j \in Ids : f.outstanding[j] <= e.outstanding[j]
                                                          + rose(j, m)}
<1>5. \A m, j : rose(j, m) \in 0 .. 2
  BY DEF StruckSoFar
<1>6. 0 \in G
  <2>1. struck[0] = {Refingered(e, ids, a)}
    BY <1>3 DEF ShapeWalk
  <2>2. /\ Owing(Refingered(e, ids, a))
        /\ Refingered(e, ids, a).outstanding = e.outstanding
    BY RefingeringOwes
  <2>3. \A j \in Ids : e.outstanding[j] <= e.outstanding[j] + rose(j, 0)
    <3> HIDE DEF rose
    <3> QED
      BY <1>5 DEF Owing
  <2> HIDE DEF rose, N
  <2>4. 0 \in 0 .. N
    BY <1>1, <1>2, <1>4
  <2> QED
    BY <2>1, <2>2, <2>3, <2>4
<1>7. ASSUME NEW m \in 0 .. N, m < N, m \in G
      PROVE  m + 1 \in G
  <2> DEFINE id == events[m + 1]
  <2>1. m + 1 \in 0 .. N /\ m + 1 \in 1 .. N /\ (m + 1) - 1 = m
    BY <1>1, <1>2, <1>4, <1>7
  <2>2. struck[m + 1] = StruckNotes(struck[m], id, a[id])
    BY <1>3, <2>1 DEF ShapeWalk
  <2>3. id \in Ids
    BY <1>4, <2>1
  <2>4. \A j \in Ids : rose(j, m) + (IF j = id THEN 1 ELSE 0) <= rose(j, m + 1)
    <3>1. m < k => id = C[m + 1]
      BY <1>1, <1>2, <1>4, <2>1
    <3>2. ~(m < k) => id = D[m + 1 - k]
      BY <1>1, <1>2, <1>4, <2>1
    <3>3. m \in 0 .. k + l /\ m < k + l
      BY <1>4, <1>7
    <3> HIDE DEF id, N, events
    <3> QED
      BY <1>1, <1>2, <3>1, <3>2, <3>3, NextIsStruck
  <2> HIDE DEF id
  <2>5. ASSUME NEW f \in struck[m + 1]
        PROVE  /\ Owing(f)
               /\ \A j \in Ids : f.outstanding[j] <= e.outstanding[j]
                                                     + rose(j, m + 1)
    <3>1. PICK g \in struck[m], timing \in Timings :
             f = TakeNote(g, id, a[id], timing)
      BY <2>2 DEF StruckNotes
    <3>2. /\ Owing(g)
          /\ \A j \in Ids : g.outstanding[j] <= e.outstanding[j] + rose(j, m)
      BY <1>7, <3>1
    <3>3. Took(g, f, id)
      BY <2>3, <3>1, <3>2, TakeNoteOwes, Zenon
    <3>4. \A j \in Ids : /\ e.outstanding[j] \in Nat /\ g.outstanding[j] \in Nat
                         /\ f.outstanding[j] \in Nat
      BY <3>2, <3>3 DEF Owing, Took
    <3> HIDE DEF rose, N, G
    <3> QED
      BY <1>5, <2>4, <3>2, <3>3, <3>4 DEF Took
  <2> HIDE DEF N, rose
  <2> QED
    BY <2>1, <2>5
<1>8. N \in Nat
  BY <1>1, <1>2, <1>4
<1>9. N \in G
  <2> HIDE DEF N, G
  <2> QED
    BY <1>6, <1>7, <1>8, WalkUp
<1>10. \A j \in Ids : rose(j, N) <= Once(ids, j) + Once(repeats, j)
  <2>1. \A j, m : Reached(C, k, j, m) => j \in ids
    BY <1>1 DEF Reached
  <2>2. \A j, m : Reached(D, l, j, m) => j \in repeats
    BY <1>2 DEF Reached
  <2> QED
    BY <2>1, <2>2 DEF StruckSoFar, Once
<1>11. /\ Owing(r)
       /\ \A j \in Ids : r.outstanding[j] <= e.outstanding[j] + rose(j, N)
  BY <1>3, <1>9
<1> HIDE DEF rose, N
<1> QED
  <2>1. \A j \in Ids : /\ r.outstanding[j] \in Nat /\ e.outstanding[j] \in Nat
                       /\ Once(ids, j) \in Nat /\ Once(repeats, j) \in Nat
    BY <1>11 DEF Owing, Once
  <2> QED
    BY <1>5, <1>10, <1>11, <2>1

\* So does one that does not.
LEMMA PlaySinglyOwes ==
    ASSUME NEW e, Owing(e), NEW ids \in SUBSET Ids, NEW repeats \in SUBSET ids,
           IsFiniteSet(ids), NEW r \in PlaySingly(e, ids, repeats)
    PROVE  /\ Owing(r)
           /\ \A j \in Ids : r.outstanding[j] <= e.outstanding[j]
                                + Once(ids, j) + Once(repeats, j)
<1> DEFINE C == Canonical(ids)
           N == Len(C)
           k == Cardinality(ids)
           rose(j, m) == IF Reached(C, k, j, m) THEN 1 + Once(repeats, j) ELSE 0
           Within(f, m) ==
               /\ Owing(f)
               /\ \A j \in Ids : f.outstanding[j] <= e.outstanding[j] + rose(j, m)
<1>1. /\ k \in Nat /\ C \in [1 .. k -> ids]
      /\ \A m, n \in 1 .. k : C[m] = C[n] => m = n
  BY CanonicalOnce
<1>2. PICK played : SingleWalk(e, ids, repeats, played) /\ r \in played[N]
  BY SinglyIsWalked
<1>3. N = k
  <2>1. C \in Seq(ids) /\ Len(C) = k
    <3> HIDE DEF C, k
    <3> QED
      BY <1>1, SeqDef
  <2> QED
    BY <2>1
<1>4. \A j, m : rose(j, m) \in 0 .. 2 /\ Once(repeats, j) \in 0 .. 1
  BY DEF Once
<1> DEFINE G == {m \in 0 .. k : \A f \in played[m] : Within(f, m)}
<1>5. 0 \in G
  <2>1. played[0] = {e}
    BY <1>2 DEF SingleWalk
  <2>2. Within(e, 0)
    <3> HIDE DEF rose
    <3> QED
      BY <1>4 DEF Owing
  <2> HIDE DEF Within, k
  <2> QED
    BY <1>1, <2>1, <2>2
<1>6. ASSUME NEW m \in 0 .. k, m < k, m \in G
      PROVE  m + 1 \in G
  <2> DEFINE id == C[m + 1]
  <2>1. m + 1 \in 0 .. k /\ m + 1 \in 1 .. k /\ (m + 1) - 1 = m
    <3> HIDE DEF k
    <3> QED
      BY <1>1, <1>6
  <2>2. played[m + 1] = IF id \in repeats
                        THEN NextNotes(NextNotes(played[m], id), id)
                        ELSE NextNotes(played[m], id)
    <3>1. m + 1 \in 1 .. Len(Canonical(ids))
      BY <1>3, <2>1
    <3> QED
      BY <1>2, <2>1, <3>1 DEF SingleWalk
  <2>3. id \in Ids
    <3>1. id \in ids
      <4> HIDE DEF C, k
      <4> QED
        BY <1>1, <2>1
    <3> QED
      BY <3>1
  <2>4. \A j \in Ids : rose(j, m) + (IF j = id THEN 1 + Once(repeats, j) ELSE 0)
                         <= rose(j, m + 1)
    <3> SUFFICES ASSUME NEW j \in Ids
                 PROVE  rose(j, m) + (IF j = id THEN 1 + Once(repeats, j) ELSE 0)
                          <= rose(j, m + 1)
      OBVIOUS
    <3> HIDE DEF C, k
    <3>1. CASE j = id
      <4>1. Reached(C, k, j, m + 1) /\ ~Reached(C, k, j, m)
        BY <1>1, <2>1, <3>1 DEF Reached
      <4> QED
        BY <1>4, <3>1, <4>1
    <3>2. CASE j # id
      <4>1. Reached(C, k, j, m) => Reached(C, k, j, m + 1)
        BY <1>1, <2>1 DEF Reached
      <4> QED
        BY <1>4, <3>2, <4>1
    <3> QED
      BY <3>1, <3>2
  <2> HIDE DEF id
  <2>5. ASSUME NEW f \in played[m + 1]
        PROVE  Within(f, m + 1)
    <3>1. \A g \in played[m] : Within(g, m)
      BY <1>6
    <3>2. CASE id \notin repeats
      <4>1. PICK g \in played[m] : f \in PlayNote(g, id)
        BY <2>2, <3>2 DEF NextNotes
      <4>2. Took(g, f, id)
        BY <2>3, <3>1, <4>1, PlayNoteOwes
      <4>3. \A j \in Ids : /\ e.outstanding[j] \in Nat
                           /\ g.outstanding[j] \in Nat
                           /\ f.outstanding[j] \in Nat
        BY <3>1, <4>1, <4>2 DEF Owing, Took
      <4>4. \A j \in Ids : g.outstanding[j] <= e.outstanding[j] + rose(j, m)
        BY <3>1, <4>1
      <4> HIDE DEF rose
      <4> QED
        BY <1>4, <2>4, <4>2, <4>3, <4>4 DEF Took
    <3>3. CASE id \in repeats
      <4>0. PICK h \in NextNotes(played[m], id) : f \in PlayNote(h, id)
        <5>1. played[m + 1] = NextNotes(NextNotes(played[m], id), id)
          BY <2>2, <3>3
        <5> QED
          BY <5>1, Zenon DEF NextNotes
      <4>1. PICK g \in played[m] : h \in PlayNote(g, id)
        BY <4>0 DEF NextNotes
      <4>2. Took(g, h, id)
        BY <2>3, <3>1, <4>1, PlayNoteOwes
      <4>3. Took(h, f, id)
        <5>1. Owing(h)
          BY <4>2 DEF Took
        <5> QED
          BY <2>3, <4>0, <5>1, PlayNoteOwes
      <4>4. \A j \in Ids : /\ e.outstanding[j] \in Nat
                           /\ g.outstanding[j] \in Nat
                           /\ h.outstanding[j] \in Nat
                           /\ f.outstanding[j] \in Nat
        BY <3>1, <4>1, <4>2, <4>3 DEF Owing, Took
      <4>5. \A j \in Ids : g.outstanding[j] <= e.outstanding[j] + rose(j, m)
        BY <3>1, <4>1
      <4>6. Once(repeats, id) = 1
        BY <3>3 DEF Once
      <4> HIDE DEF rose
      <4> QED
        BY <1>4, <2>4, <4>2, <4>3, <4>4, <4>5, <4>6 DEF Took
    <3> QED
      BY <3>2, <3>3
  <2> HIDE DEF Within, k
  <2> QED
    BY <2>1, <2>5
<1>7. k \in G
  <2>1. k \in Nat
    BY <1>1
  <2>2. \A m \in 0 .. k : m < k /\ m \in G => m + 1 \in G
    <3> HIDE DEF k, G
    <3> QED
      BY <1>6
  <2> HIDE DEF k, G
  <2> QED
    BY <1>5, <2>1, <2>2, WalkUp
<1>8. Within(r, k)
  BY <1>2, <1>3, <1>7
<1>9. \A j \in Ids : rose(j, k) <= Once(ids, j) + Once(repeats, j)
  <2>1. \A j, m : Reached(C, k, j, m) => j \in ids
    <3> HIDE DEF C, k
    <3> QED
      BY <1>1 DEF Reached
  <2> HIDE DEF C, k
  <2> QED
    BY <2>1 DEF Once
<1> QED
  <2>1. \A j \in Ids : /\ r.outstanding[j] \in Nat /\ e.outstanding[j] \in Nat
                       /\ Once(ids, j) \in Nat /\ Once(repeats, j) \in Nat
    BY <1>8 DEF Owing, Once
  <2>2. \A j \in Ids : r.outstanding[j] <= e.outstanding[j] + rose(j, k)
    BY <1>8
  <2> HIDE DEF rose
  <2> QED
    BY <1>4, <1>8, <1>9, <2>1, <2>2

\* So does every chord.
LEMMA PlayChordOwes ==
    ASSUME NEW e, Owing(e), NEW ids \in SUBSET Ids, NEW repeats \in SUBSET ids,
           IsFiniteSet(ids), IsFiniteSet(repeats),
           NEW r \in PlayChord(e, ids, repeats)
    PROVE  /\ Owing(r)
           /\ \A j \in Ids : r.outstanding[j] <= e.outstanding[j]
                                + Once(ids, j) + Once(repeats, j)
<1>1. \/ r \in PlaySingly(e, ids, repeats)
      \/ \E a : r \in PlayShape(e, ids, repeats, a)
  BY DEF PlayChord
<1>2. repeats \in SUBSET Ids
  OBVIOUS
<1> QED
  BY <1>1, <1>2, PlaySinglyOwes, PlayShapeOwes

\* Nothing goes below zero.
LEMMA MaxIs ==
    ASSUME NEW n \in Int
    PROVE  Max({0, n}) = IF n > 0 THEN n ELSE 0
BY DEF Max

\* A Note Off expects one less of its pitch, and never leaves an owner without.
LEMMA LiftOwes ==
    ASSUME NEW e, Owing(e), NEW id \in Ids
    PROVE  /\ Owing(Lift(e, id))
           /\ \A j \in Ids : j # id =>
                 Lift(e, id).outstanding[j] = e.outstanding[j]
           /\ \/ Lift(e, id).outstanding[id] <= e.outstanding[id] - 1
              \/ Lift(e, id).outstanding[id] = 0
<1> DEFINE r == Lift(e, id)
           f == LiftFingers(e, id)
           h == Cardinality(Holders(e, id))
           out == e.outstanding[id]
           left == Max({0, out - h})
<1>1. /\ IsEngine(e) /\ Counted(e) /\ e.outstanding \in [Ids -> Nat]
      /\ \A j \in Ids : Owners(e, j) <= e.outstanding[j]
  BY DEF Owing
<1>2. out \in Nat /\ h \in Nat /\ id # NoId /\ \A j : Owners(e, j) \in Nat
  BY <1>1, HeldIsFinite, IdsAreNotes
<1>3. IsEngine(r)
  BY <1>1, LiftIs
<1>4. /\ IsEngine(f)
      /\ \A t \in Strings : f.held[t] = IF t \in Holders(e, id)
                                       THEN OneLess(e.held[t]) ELSE e.held[t]
  BY <1>1, LiftFingersIs
<1>5. f.outstanding = e.outstanding
  BY <1>1 DEF LiftFingers, IsEngine
<1>6. \/ /\ out > Owners(e, id) /\ r.held = e.held
         /\ r.outstanding = [e.outstanding EXCEPT ![id] = out - 1]
      \/ /\ out > Owners(e, id) => Holders(e, id) # {}
         /\ r.held = f.held
         /\ r.outstanding = [e.outstanding EXCEPT ![id] = left]
  <2> HIDE DEF f, left
  <2>1. CASE out > Owners(e, id) /\ (~e.broadcast[id] \/ Holders(e, id) = {})
    <3>1. r = [e EXCEPT !.outstanding[id] = @ - 1,
                        !.broadcast[id] = @ /\ Holders(e, id) # {}]
      BY <2>1 DEF Lift
    <3> HIDE DEF r
    <3>2. r.held = e.held /\ r.outstanding = [e.outstanding EXCEPT ![id] = out - 1]
      BY <1>1, <3>1 DEF IsEngine
    <3> QED
      BY <2>1, <3>2
  <2>2. CASE ~(out > Owners(e, id) /\ (~e.broadcast[id] \/ Holders(e, id) = {}))
    <3>1. r = [f EXCEPT !.outstanding[id] = left,
                        !.broadcast[id] = @ /\ Holders(f, id) # {} /\ left # 0]
      BY <2>2 DEF Lift, f, left
    <3> HIDE DEF r
    <3>2. r.held = f.held /\ r.outstanding = [f.outstanding EXCEPT ![id] = left]
      BY <1>4, <3>1 DEF IsEngine
    <3> QED
      BY <1>5, <2>2, <3>2
  <2> QED
    BY <2>1, <2>2
<1> HIDE DEF r, f
<1>7. left = IF out - h > 0 THEN out - h ELSE 0
  <2>1. out - h \in Int
    BY <1>2
  <2> HIDE DEF out, h
  <2> QED
    BY <2>1, MaxIs
<1> HIDE DEF left, h
<1>8. \A j : Owners(r, j) \in Nat
  BY <1>3, HeldIsFinite
<1>9. CASE /\ out > Owners(e, id) /\ r.held = e.held
           /\ r.outstanding = [e.outstanding EXCEPT ![id] = out - 1]
  <2>1. /\ r.outstanding \in [Ids -> Nat] /\ r.outstanding[id] = out - 1
        /\ \A j \in Ids : j # id => r.outstanding[j] = e.outstanding[j]
    BY <1>1, <1>2, <1>9
  <2>2. \A j : Owners(r, j) = Owners(e, j)
    BY <1>9 DEF Owners, HeldBy, Holders
  <2>3. Counted(r)
    BY <1>1, <1>9 DEF Counted
  <2>4. Owing(r)
    BY <1>1, <1>2, <1>3, <1>9, <2>1, <2>2, <2>3 DEF Owing
  <2> QED
    BY <1>2, <2>1, <2>4 DEF r
<1>10. CASE /\ out > Owners(e, id) => Holders(e, id) # {}
            /\ r.held = f.held
            /\ r.outstanding = [e.outstanding EXCEPT ![id] = left]
  <2>1. left \in Nat
    BY <1>2, <1>7
  <2>2. /\ r.outstanding \in [Ids -> Nat] /\ r.outstanding[id] = left
        /\ \A j \in Ids : j # id => r.outstanding[j] = e.outstanding[j]
    BY <1>1, <1>10, <2>1
  <2>3. \A t \in Strings : r.held[t] = IF t \in Holders(e, id)
                                      THEN OneLess(e.held[t]) ELSE e.held[t]
    BY <1>4, <1>10
  <2>4. ASSUME NEW t \in Strings
        PROVE  /\ OneLess(e.held[t]) = Free \/ /\ OneLess(e.held[t]).count > 0
                                               /\ OneLess(e.held[t]).id = e.held[t].id
               /\ t \in Holders(e, id) => e.held[t].count > 0
    <3>1. IsOwner(e.held[t])
      BY <1>1 DEF IsEngine
    <3>2. t \in Holders(e, id) => e.held[t] # Free
      BY <1>2 DEF Holders, Free
    <3> QED
      BY <1>1, <3>1, <3>2, OwnersCount DEF Counted
  <2>5. Counted(r)
    BY <1>1, <2>3, <2>4 DEF Counted
  <2>6. Owners(r, id) + Cardinality(Holders(e, id)) <= Owners(e, id)
    <3>1. \A s \in Holders(e, id) : e.held[s].count > 0
      BY <2>4 DEF Holders
    <3> QED
      BY <1>1, <1>2, <2>3, <3>1, OwnersLifted
  <2>7. ASSUME NEW j \in Ids, j # id
        PROVE  Owners(r, j) <= Owners(e, j)
    <3>1. ASSUME NEW t \in Strings, NEW k, Holds(r.held[t], j, k)
          PROVE  Holds(e.held[t], j, k)
      <4>1. r.held[t] # Free
        BY <3>1 DEF Holds, Free
      <4>2. t \notin Holders(e, id)
        BY <2>3, <2>4, <2>7, <3>1, <4>1 DEF Holds, Holders
      <4> QED
        BY <2>3, <3>1, <4>2
    <3> QED
      BY <1>1, <3>1, OwnersLeft
  <2>8. Owners(r, id) <= left
    <3>1. Owners(r, id) + h <= Owners(e, id) /\ Owners(e, id) <= out
      BY <1>1, <2>6 DEF h
    <3> QED
      BY <1>2, <1>7, <1>8, <3>1
  <2>9. Owing(r)
    <3>1. \A j \in Ids : Owners(r, j) <= r.outstanding[j]
      <4>1. \A j \in Ids : e.outstanding[j] \in Nat
        BY <1>1
      <4> QED
        BY <1>1, <1>2, <1>8, <2>2, <2>7, <2>8, <4>1
    <3> QED
      BY <1>3, <2>2, <2>5, <3>1 DEF Owing
  <2>10. left <= out - 1 \/ left = 0
    <3>1. CASE Holders(e, id) = {}
      <4>1. Owners(e, id) = 0
        <5>1. HeldBy(e, id) = {}
          BY <3>1 DEF HeldBy
        <5> QED
          BY <5>1, FS_EmptySet DEF Owners
      <4> QED
        BY <1>2, <1>7, <1>10, <3>1, <4>1
    <3>2. CASE Holders(e, id) # {}
      <4>1. h # 0
        BY <1>1, <3>2, HeldIsFinite, FS_EmptySet DEF h
      <4> QED
        BY <1>2, <1>7, <4>1
    <3> QED
      BY <3>1, <3>2
  <2> QED
    BY <2>2, <2>9, <2>10 DEF r
<1> QED
  BY <1>6, <1>9, <1>10

\* A repick expects nothing.
LEMMA RepickOutstanding ==
    ASSUME NEW e, IsEngine(e), NEW s \in Strings, e.held[s].count > 0,
           NEW timing
    PROVE  PlayOn(e, e.held[s].id, s, timing, FALSE).outstanding = e.outstanding
<1> DEFINE r == PlayOn(e, e.held[s].id, s, timing, FALSE)
<1>1. \E V, d : r = [[e EXCEPT !.voice = V] EXCEPT !.voice = d]
  <2>1. \E w, d : r = Revoiced(Revoiced(e, s, w), s, d)
    BY DEF PlayOn, Revoiced
  <2> HIDE DEF r
  <2> QED
    BY <2>1 DEF Revoiced
<1> HIDE DEF r
<1>2. r.outstanding = e.outstanding
  BY <1>1 DEF IsEngine
<1> QED
  BY <1>2 DEF r

\* A silent engine owes nothing.
LEMMA SilenceOwes == Owing(Silenced) /\ Silenced.outstanding = [id \in Ids |-> 0]
<1> DEFINE H == [s \in Strings |-> Free]
           V == [s \in Strings |-> Silent]
           O == [id \in Ids |-> 0]
           B == [id \in Ids |-> FALSE]
<1>1. Silenced = [held |-> H, voice |-> V, outstanding |-> O, broadcast |-> B]
  BY DEF Silenced
<1>2. O \in [Ids -> Nat] /\ \A id \in Ids : O[id] = 0
  OBVIOUS
<1> HIDE DEF H, V, O, B
<1>3. Silenced.outstanding = O
  BY <1>1
<1>4. IsEngine(Silenced) /\ \A s \in Strings : Silenced.held[s] = Free
  BY SilencedIs
<1>5. ASSUME NEW id \in Ids
      PROVE  Owners(Silenced, id) = 0
  <2>1. HeldBy(Silenced, id) = {}
    <3> SUFFICES ASSUME NEW p \in HeldBy(Silenced, id) PROVE FALSE
      OBVIOUS
    <3>1. p = <<p[1], p[2]>>
      BY HeldByIs
    <3>2. p[1] \in Strings /\ Holds(Silenced.held[p[1]], id, p[2])
      BY <3>1, HeldByIs
    <3> QED
      BY <1>4, <3>2 DEF Holds, Free
  <2> QED
    BY <2>1, FS_EmptySet DEF Owners
<1>6. Owing(Silenced)
  BY <1>2, <1>3, <1>4, <1>5 DEF Owing, Counted
<1> QED
  BY <1>3, <1>6 DEF O

\* An engine with the same fingers, that expects the same Note Offs.
LEMMA SameOwes ==
    ASSUME NEW e, Owing(e), NEW r, IsEngine(r), r.held = e.held,
           r.outstanding = e.outstanding
    PROVE  Owing(r)
<1>1. \A j : Owners(r, j) = Owners(e, j)
  BY DEF Owners, HeldBy, Holders
<1> QED
  BY <1>1 DEF Owing, Counted

\* The client will send every Note Off the engine expects.
NoteOffsComing(out) == \A id \in Ids : out[id] <= due[id]

\* Owners, expected Note Offs and those to come, in order.
HeldInv ==
    /\ Owing(engine)
    /\ due \in [Ids -> Nat]
    /\ NoteOffsComing(engine.outstanding)

\* What a client plays has an identity.
LEMMA PlayedAreIds == client \in Clients => Played \subseteq Ids
<1> SUFFICES ASSUME client \in Clients, NEW id \in Played PROVE id \in Ids
  OBVIOUS
<1>1. /\ id = [note |-> id.note, expr |-> id.expr]
      /\ id.note \in client.notes /\ id.expr \in client.expressions
  BY DEF Played
<1> QED
  BY <1>1 DEF Ids, Expressions

\* Every step keeps the account.
LEMMA HeldStep == Attends /\ Attends' /\ HeldInv /\ [Next]_vars => HeldInv'
<1> SUFFICES ASSUME Attends, Attends', HeldInv, [Next]_vars PROVE HeldInv'
  OBVIOUS
<1>0. /\ client \in Clients /\ IsEngine(engine) /\ IsEngine(engine')
      /\ Owing(engine) /\ due \in [Ids -> Nat]
      /\ \A id \in Ids : engine.outstanding[id] <= due[id]
      /\ \A id \in Ids : engine.outstanding[id] \in Nat
  BY DEF Attends, Kept, HeldInv, Owing, NoteOffsComing
<1>1. ASSUME NEW id \in Played, NoteOn(id) PROVE HeldInv'
  <2>1. id \in Ids
    BY <1>0, PlayedAreIds
  <2>2. Took(engine, engine', id)
    BY <1>0, <1>1, <2>1, PlayNoteOwes DEF NoteOn
  <2>3. due' = [due EXCEPT ![id] = @ + 1]
    BY <1>1 DEF NoteOn
  <2>4. \A j \in Ids : engine'.outstanding[j] \in Nat
    BY <2>2 DEF Took, Owing
  <2>5. \A j \in Ids : engine'.outstanding[j] <= due'[j]
    BY <1>0, <2>1, <2>2, <2>3, <2>4 DEF Took
  <2>6. due' \in [Ids -> Nat]
    BY <1>0, <2>1, <2>3
  <2> QED
    BY <2>2, <2>5, <2>6 DEF HeldInv, NoteOffsComing, Took
<1>2. ASSUME NEW id \in Played, NoteOff(id) PROVE HeldInv'
  <2>1. id \in Ids
    BY <1>0, PlayedAreIds
  <2>2. engine' = Lift(engine, id) /\ due' = [due EXCEPT ![id] = Max({0, @ - 1})]
    BY <1>2 DEF NoteOff
  <2>3. /\ Owing(engine')
        /\ \A j \in Ids : j # id => engine'.outstanding[j] = engine.outstanding[j]
        /\ \/ engine'.outstanding[id] <= engine.outstanding[id] - 1
           \/ engine'.outstanding[id] = 0
    BY <1>0, <2>1, <2>2, LiftOwes
  <2>4. due[id] - 1 \in Int
    BY <1>0, <2>1
  <2>5. Max({0, due[id] - 1}) = IF due[id] - 1 > 0 THEN due[id] - 1 ELSE 0
    BY <2>4, MaxIs
  <2>6. /\ due' \in [Ids -> Nat]
        /\ \A j \in Ids : j # id => due'[j] = due[j]
        /\ due'[id] = IF due[id] - 1 > 0 THEN due[id] - 1 ELSE 0
    BY <1>0, <2>1, <2>2, <2>5
  <2>7. \A j \in Ids : engine'.outstanding[j] <= due'[j]
    <3>1. engine'.outstanding[id] \in Nat
      BY <2>1, <2>3 DEF Owing
    <3> QED
      BY <1>0, <2>1, <2>3, <2>6, <3>1
  <2> QED
    BY <2>3, <2>6, <2>7 DEF HeldInv, NoteOffsComing
<1>3. ASSUME NEW ids \in SUBSET Played, NEW repeats \in SUBSET ids,
             NoteOnChord(ids, repeats)
      PROVE  HeldInv'
  <2>1. ids \in SUBSET Ids
    BY <1>0, PlayedAreIds
  <2>2. IsFiniteSet(ids) /\ IsFiniteSet(repeats)
    BY <1>0, ChordsAreFinite
  <2>3. engine' \in PlayChord(engine, ids, repeats)
    BY <1>3 DEF NoteOnChord
  <2>4. /\ Owing(engine')
        /\ \A j \in Ids : engine'.outstanding[j] <= engine.outstanding[j]
                             + Once(ids, j) + Once(repeats, j)
    BY <1>0, <2>1, <2>2, <2>3, PlayChordOwes
  <2>5. due' = [j \in Ids |-> due[j] + Once(ids, j) + Once(repeats, j)]
    BY <1>3 DEF NoteOnChord, Once
  <2>6. \A j \in Ids : /\ Once(ids, j) \in Nat /\ Once(repeats, j) \in Nat
                       /\ engine'.outstanding[j] \in Nat
    BY <2>4 DEF Once, Owing
  <2>7. due' \in [Ids -> Nat]
    BY <1>0, <2>5, <2>6
  <2>8. \A j \in Ids : engine'.outstanding[j] <= due'[j]
    BY <1>0, <2>4, <2>5, <2>6
  <2> QED
    BY <2>4, <2>7, <2>8 DEF HeldInv, NoteOffsComing
<1>4. ASSUME engine'.held = engine.held, engine'.outstanding = engine.outstanding,
             due' = due
      PROVE  HeldInv'
  <2>1. Owing(engine')
    BY <1>0, <1>4, SameOwes
  <2> QED
    BY <1>0, <1>4, <2>1 DEF HeldInv, NoteOffsComing
<1>5. ASSUME NEW s \in Strings, RepickHeldString(s) PROVE HeldInv'
  <2>1. PICK timing \in Timings :
           engine' = PlayOn(engine, engine.held[s].id, s, timing, FALSE)
    BY <1>5 DEF RepickHeldString
  <2>2. engine.held[s].count > 0 /\ due' = due
    BY <1>5 DEF RepickHeldString
  <2>3. IsRepicked(engine, s, engine')
    BY <1>0, <2>1, <2>2, RepickIs
  <2>4. engine'.outstanding = engine.outstanding
    BY <1>0, <2>1, <2>2, RepickOutstanding
  <2> QED
    BY <1>4, <2>2, <2>3, <2>4 DEF IsRepicked
<1>6. CASE PedalUp \/ Recover \/ (\E s \in Strings : Retire(s))
           \/ (\E s \in Strings, again \in BOOLEAN : Contact(s, again))
  <2>1. (\E V : engine' = [engine EXCEPT !.voice = V]) /\ due' = due
    <3>1. CASE PedalUp \/ Recover
      BY <3>1 DEF PedalUp, Recover
    <3>2. ASSUME NEW s \in Strings, NEW again \in BOOLEAN,
                 Retire(s) \/ Contact(s, again)
          PROVE  (\E V : engine' = [engine EXCEPT !.voice = V]) /\ due' = due
      BY <3>2 DEF Retire, Contact
    <3> QED
      BY <1>6, <3>1, <3>2
  <2>2. engine'.held = engine.held /\ engine'.outstanding = engine.outstanding
    BY <1>0, <2>1 DEF IsEngine
  <2> QED
    BY <1>4, <2>1, <2>2
<1>7. ASSUME \/ PedalDown \/ UNCHANGED vars
             \/ \E x : SelectPlayStyle(x) \/ SelectSolo(x)
      PROVE  HeldInv'
  <2>1. engine' = engine /\ due' = due
    BY <1>7 DEF PedalDown, SelectPlayStyle, SelectSolo, vars
  <2> QED
    BY <1>4, <2>1
<1>8. CASE AllNotesOff \/ Reset
  <2>1. /\ engine'.held = Silenced.held
        /\ engine'.outstanding = Silenced.outstanding
        /\ due' = [id \in Ids |-> 0]
    <3>1. CASE AllNotesOff
      <4>1. \E V : engine' = [Silenced EXCEPT !.voice = V]
        BY <3>1 DEF AllNotesOff
      <4> QED
        BY <3>1, <4>1, SilencedIs DEF IsEngine, AllNotesOff
    <3>2. CASE Reset
      BY <3>2 DEF Reset
    <3> QED
      BY <1>8, <3>1, <3>2
  <2>2. Owing(engine') /\ engine'.outstanding = [id \in Ids |-> 0]
    BY <1>0, <2>1, SilenceOwes, SameOwes
  <2>3. due' \in [Ids -> Nat]
        /\ \A id \in Ids : engine'.outstanding[id] = 0 /\ due'[id] = 0
    BY <2>1, <2>2
  <2> QED
    BY <2>2, <2>3 DEF HeldInv, NoteOffsComing
<1> QED
  BY <1>1, <1>2, <1>3, <1>5, <1>6, <1>7, <1>8 DEF Next, Playing, Rendering

\* At first nothing is held, expected or due.
LEMMA HeldStart == Init => HeldInv
<1> SUFFICES ASSUME Init PROVE HeldInv
  OBVIOUS
<1>1. engine = Silenced /\ due = [id \in Ids |-> 0]
  BY DEF Init
<1>2. /\ due \in [Ids -> Nat]
      /\ \A id \in Ids : due[id] = 0 /\ engine.outstanding[id] = 0
  BY <1>1, SilenceOwes
<1> QED
  BY <1>1, <1>2, SilenceOwes DEF HeldInv, NoteOffsComing

\* No pitch has more owners than the Note Offs the engine expects for it, nor
\* does it expect more than will come (bindStringOwner, noteOff, the chord's
\* re-fingering, allNotesOff, reset): nothing stays held for ever.  It is so for
\* every client, with stolen strings, pitches on several strings at once, moved
\* chords, solo masks and stray Note Offs.
THEOREM HeldNotesAreOwed == Spec => []HeldIsOwed
<1>1. HeldInv => HeldIsOwed
  BY DEF HeldInv, Owing, NoteOffsComing, HeldIsOwed
<1> QED
  BY <1>1, AttendsStart, AttendsStep, HeldStart, HeldStep, PTL DEF Spec

-----------------------------------------------------------------------------
(***************************************************************************)
(* A hand without solo masks knows its pitches apart.                      *)
(***************************************************************************)

\* Some string can play the pitch.
Reachable(id) == \E s \in Strings : OnTheNeck(id, s)

\* Nobody is on two strings, and every finger is on the neck.
Alone(e) ==
    \A id \in Ids : /\ \A s, t \in Holders(e, id) : s = t
                    /\ \A s \in Holders(e, id) : OnTheNeck(id, s)

Unmarked == [id \in Ids |-> FALSE]

Settled(e) == Owing(e) /\ Alone(e) /\ e.broadcast = Unmarked

\* Nobody but this string, or one its member is about to leave, has the pitch.
OnlyThere(e, id, s) == \A t \in Holders(e, id) : t = s \/ Leaves(e, id, t)

\* Moving a finger away does not mark a pitch.
LEMMA MemberMovesUnmarked ==
    ASSUME NEW e, IsEngine(e), NEW id, NEW s
    PROVE  MemberMoves(e, id, s).broadcast = e.broadcast
<1> DEFINE r == MemberMoves(e, id, s)
<1>1. \E H, V : r = [e EXCEPT !.held = H, !.voice = V]
  BY DEF MemberMoves
<1> HIDE DEF r
<1>2. r.broadcast = e.broadcast
  BY <1>1 DEF IsEngine
<1> QED
  BY <1>2 DEF r

\* A pitch is marked only where it is on a second string.
LEMMA BindOwnerUnmarked ==
    ASSUME NEW e, IsEngine(e), NEW id, NEW s, Holders(e, id) \ {s} = {},
           e.broadcast = Unmarked
    PROVE  BindOwner(e, id, s).broadcast = Unmarked
<1> DEFINE r == BindOwner(e, id, s)
           both == IF Holders(e, id) = {} THEN FALSE
                   ELSE Holders(e, id) \ {s} # {} \/ e.broadcast[id]
           B == [e.broadcast EXCEPT ![id] = both]
<1>1. \E O, H : r = [e EXCEPT !.outstanding = O, !.broadcast = B, !.held = H]
  BY DEF BindOwner, IsEngine
<1>2. B = Unmarked
  BY DEF Unmarked
<1> HIDE DEF r, B
<1>3. r.broadcast = B
  BY <1>1 DEF IsEngine
<1> QED
  BY <1>2, <1>3 DEF r

LEMMA TakeNoteUnmarked ==
    ASSUME NEW e, IsEngine(e), e.broadcast = Unmarked, NEW id, id # NoId, NEW s,
           OnlyThere(e, id, s), NEW timing
    PROVE  TakeNote(e, id, s, timing).broadcast = Unmarked
<1> DEFINE begun == Begun(e.voice[s], id, playStyle, timing)
           struck == Revoiced(e, s, begun)
           moved == MemberMoves(struck, id, s)
           owned == BindOwner(moved, id, s)
           w == [owned.voice[s] EXCEPT !.down = owned.held[s].count > 0]
           r == Revoiced(owned, s, w)
<1>1. TakeNote(e, id, s, timing) = r
  BY DEF TakeNote, PlayOn, Revoiced
<1>2. s \in Strings => Sounds(begun, id)
  <2> SUFFICES ASSUME s \in Strings PROVE Sounds(begun, id)
    OBVIOUS
  <2>1. IsVoice(e.voice[s])
    BY DEF IsEngine
  <2>2. /\ IsVoice(Begun(e.voice[s], id, playStyle, timing))
        /\ Begun(e.voice[s], id, playStyle, timing).id = id
        /\ Begun(e.voice[s], id, playStyle, timing).down = TRUE
    BY <2>1, BegunIs, Zenon
  <2> QED
    BY <2>2 DEF Sounds
<1> HIDE DEF begun, w
<1>3. IsEngine(struck) /\ struck.broadcast = e.broadcast /\ struck.held = e.held
  <2>1. struck.broadcast = e.broadcast
    BY DEF Revoiced, IsEngine
  <2> QED
    BY <1>2, <2>1, VoiceReplaced DEF Sounds
<1> HIDE DEF struck
<1>4. IsEngine(moved) /\ moved.broadcast = e.broadcast
  BY <1>3, MemberMovesIs, MemberMovesUnmarked
<1>5. Holders(moved, id) \ {s} = {}
  <2> SUFFICES ASSUME NEW t \in Strings, moved.held[t].id = id, t # s
               PROVE  FALSE
    BY DEF Holders
  <2>1. moved.held[t] = IF t # s /\ Leaves(struck, id, t) THEN Free
                        ELSE struck.held[t]
    BY <1>3, MemberMovesIs
  <2>2. Leaves(struck, id, t) <=> Leaves(e, id, t)
    BY <1>3 DEF Leaves
  <2> HIDE DEF moved
  <2>3. CASE Leaves(e, id, t)
    BY <2>1, <2>2, <2>3 DEF Free
  <2>4. CASE ~Leaves(e, id, t)
    BY <1>3, <2>1, <2>2, <2>4 DEF OnlyThere, Holders
  <2> QED
    BY <2>3, <2>4
<1> HIDE DEF moved
<1>6. IsEngine(owned) /\ owned.broadcast = Unmarked
  BY <1>4, <1>5, BindOwnerIs, BindOwnerUnmarked
<1> HIDE DEF owned
<1>7. r.broadcast = owned.broadcast
  BY <1>6 DEF Revoiced, IsEngine
<1> HIDE DEF r
<1> QED
  BY <1>1, <1>6, <1>7

\* A note played where its pitch is, or on a string of the neck if it is
\* nowhere, leaves every pitch on one string.
LEMMA TakeNoteSettles ==
    ASSUME NEW e, Settled(e), NEW id \in Ids, NEW s \in Strings,
           OnTheNeck(id, s), OnlyThere(e, id, s), NEW timing
    PROVE  LET r == TakeNote(e, id, s, timing) IN
           /\ Settled(r)
           /\ r.outstanding = [e.outstanding EXCEPT ![id] = @ + 1]
           /\ \A j \in Ids : Holders(r, j) \subseteq
                                (IF j = id THEN {s} ELSE Holders(e, j))
<1> DEFINE r == TakeNote(e, id, s, timing)
<1>1. Owing(e) /\ IsEngine(e) /\ Alone(e) /\ e.broadcast = Unmarked
  BY DEF Settled, Owing
<1>2. Owing(r)
  BY <1>1, TakeNoteOwes DEF Took
<1>3. r.outstanding = [e.outstanding EXCEPT ![id] = @ + 1]
  BY <1>1, PlayOnOutstanding
<1>4. r.broadcast = Unmarked
  BY <1>1, IdsAreNotes, TakeNoteUnmarked
<1>5. TakesNote(e, id, s, r)
  BY <1>1, PlayOnIs, Zenon
<1> HIDE DEF r
<1>6. \A t \in Strings : r.held[t] = PlayedHeld(e, id, s, t)
  BY <1>5 DEF TakesNote
<1>7. ASSUME NEW t \in Strings, NEW j \in Ids, r.held[t].id = j
      PROVE  IF j = id THEN t = s ELSE t \in Holders(e, j)
  <2>1. NoId # j /\ NoId # id
    BY IdsAreNotes
  <2>2. r.held[t] = PlayedHeld(e, id, s, t)
    BY <1>6
  <2>3. CASE t = s
    <3>1. IsOwner(e.held[s])
      BY <1>1 DEF IsEngine
    <3>2. OneMore(e.held[s], id).id = id
      BY <3>1, OwnersCount, Zenon
    <3> QED
      BY <1>7, <2>2, <2>3, <3>2 DEF PlayedHeld
  <2>4. CASE t # s /\ Leaves(e, id, t)
    BY <1>7, <2>1, <2>2, <2>4 DEF PlayedHeld, Free
  <2>5. CASE t # s /\ ~Leaves(e, id, t)
    <3>1. e.held[t].id = j
      BY <1>7, <2>2, <2>5 DEF PlayedHeld
    <3> QED
      BY <2>5, <3>1 DEF Holders, OnlyThere
  <2> QED
    BY <2>3, <2>4, <2>5
<1>8. \A j \in Ids : Holders(r, j) \subseteq
                        (IF j = id THEN {s} ELSE Holders(e, j))
  BY <1>7 DEF Holders
<1>9. Alone(r)
  BY <1>1, <1>8 DEF Alone
<1> QED
  BY <1>2, <1>3, <1>4, <1>8, <1>9 DEF Settled, r

\* The scan over the strings finds one, if there is one.
LEMMA FirstIsThere ==
    ASSUME NEW S \in SUBSET Strings, S # {}
    PROVE  FirstOf(S) # {}
<1>1. S \in SUBSET Nat
  BY StringsAreNumbers
<1>2. PICK m \in S : \A y \in S : m <= y
  BY <1>1, LeastIsThere
<1> QED
  BY <1>2 DEF FirstOf

\* So does the search for the lowest fret.
LEMMA LowestIsThere ==
    ASSUME NEW id \in Ids, NEW S \in SUBSET Strings, S # {},
           \A s \in S : OnTheNeck(id, s)
    PROVE  LowestFret(id, S) # {}
<1> DEFINE F == {Fret(id, s) : s \in S}
<1>1. F \in SUBSET Nat
  <2> SUFFICES ASSUME NEW s \in S PROVE Fret(id, s) \in Nat
    OBVIOUS
  <2>1. Fret(id, s) \in 0 .. FretCount
    BY DEF OnTheNeck
  <2> HIDE DEF F
  <2> QED
    BY <2>1
<1>2. \E m \in F : \A y \in F : m <= y
  <2>1. F # {}
    OBVIOUS
  <2> HIDE DEF F
  <2> QED
    BY <1>1, <2>1, LeastIsThere
<1>3. PICK s \in S : \A t \in S : Fret(id, s) <= Fret(id, t)
  BY <1>2
<1> QED
  BY <1>3 DEF LowestFret

\* A hand that may use every string finds one for every pitch of the neck: the
\* one it is on already, if it is on one.
LEMMA StringIsChosen ==
    ASSUME NEW e, Settled(e), solo = {}, NEW id \in Ids, NEW style
    PROVE  /\ \A s \in ChooseString(e, id, style) :
                 s \in Strings /\ OnTheNeck(id, s) /\ OnlyThere(e, id, s)
           /\ Reachable(id) => ChooseString(e, id, style) # {}
<1> DEFINE playable == {s \in Strings : Playable(id, s)}
           member == {s \in playable : id.expr # Legacy /\ e.held[s].count > 0
                                       /\ e.held[s].id.expr = id.expr}
           finger == playable \cap Holders(e, id)
           memberTail == {s \in playable : id.expr # Legacy /\ Active(e.voice[s])
                                           /\ e.voice[s].id.expr = id.expr}
           same == FirstOf(SoundingSame(e, id))
           kept == {s \in same : ~PlainTail(e, id, s)}
           legato == IF style \in {"Hammer", "Slide"}
                     THEN LegatoSources(e, id, style) ELSE {}
           fresh == IF same # {} THEN same ELSE FreshString(e, id)
           other == IF legato = {} THEN fresh
                    ELSE IF style = "Hammer" THEN legato \cup fresh ELSE legato
           chosen == ChooseString(e, id, style)
<1>1. /\ member # {} => chosen = FirstOf(member)
      /\ member = {} /\ finger # {} => chosen = FirstOf(finger)
      /\ member = {} /\ finger = {} => \/ chosen = FirstOf(memberTail) /\ memberTail # {}
                                       \/ chosen = kept /\ kept # {}
                                       \/ chosen = other
  <2>1. chosen = CASE member # {} -> FirstOf(member)
                   [] member = {} /\ finger # {} -> FirstOf(finger)
                   [] member = {} /\ finger = {} /\ memberTail # {} -> FirstOf(memberTail)
                   [] member = {} /\ finger = {} /\ memberTail = {} /\ kept # {} -> kept
                   [] OTHER -> other
    BY DEF ChooseString
  <2> HIDE DEF chosen, member, finger, memberTail, kept, other
  <2> QED
    BY <2>1
<1>2. playable = {s \in Strings : OnTheNeck(id, s)}
  BY DEF Playable, Allowed
<1>3. /\ member \in SUBSET playable /\ finger \in SUBSET playable
      /\ memberTail \in SUBSET playable /\ SoundingSame(e, id) \in SUBSET playable
      /\ legato \in SUBSET playable
  BY DEF SoundingSame, LegatoSources
<1>4. same \in SUBSET playable /\ kept \in SUBSET playable
  BY <1>3 DEF FirstOf
<1>5. /\ FreshString(e, id) \in SUBSET playable
      /\ playable # {} => FreshString(e, id) # {}
  <2> DEFINE unused == {s \in playable :
                           /\ Active(e.voice[s]) => PlainTail(e, id, s)
                           /\ e.held[s].count = 0
                           /\ ~e.voice[s].repick}
             left == IF unused # {} THEN unused ELSE playable
  <2>1. FreshString(e, id) = LowestFret(id, left)
    BY DEF FreshString
  <2>2. left \in SUBSET playable /\ (playable # {} => left # {})
    OBVIOUS
  <2>3. playable \in SUBSET Strings /\ \A s \in playable : OnTheNeck(id, s)
    BY <1>2
  <2> HIDE DEF left, playable
  <2>4. playable # {} => LowestFret(id, left) # {}
    BY <2>2, <2>3, LowestIsThere
  <2> QED
    BY <2>1, <2>2, <2>4 DEF LowestFret
<1>6. other \in SUBSET playable /\ (playable # {} => other # {})
  <2> HIDE DEF same, legato, playable
  <2> QED
    BY <1>3, <1>4, <1>5
<1>7. Reachable(id) => playable # {}
  BY <1>2 DEF Reachable
<1>8. playable \in SUBSET Strings
  BY <1>2
<1>9. \A t \in Holders(e, id) :
          /\ t \in finger
          /\ id.expr # Legacy => Leaves(e, id, t) /\ t \in member
  <2> SUFFICES ASSUME NEW t \in Holders(e, id)
               PROVE  /\ t \in finger
                      /\ id.expr # Legacy => Leaves(e, id, t) /\ t \in member
    OBVIOUS
  <2>1. t \in Strings /\ e.held[t].id = id /\ OnTheNeck(id, t)
    BY DEF Settled, Alone, Holders
  <2>2. e.held[t] # Free
    BY <2>1, IdsAreNotes DEF Free
  <2>3. e.held[t].count > 0
    BY <2>1, <2>2 DEF Settled, Owing, Counted
  <2> QED
    BY <1>2, <2>1, <2>3 DEF Leaves
<1>10. \A s, t \in Holders(e, id) : s = t
  BY DEF Settled, Alone
<1>11. \A s \in finger : s \in Holders(e, id)
  OBVIOUS
<1>12. \A s \in member : id.expr # Legacy
  OBVIOUS
<1> HIDE DEF member, finger, memberTail, kept, other, playable, chosen, same
<1>13. \A S \in SUBSET playable : FirstOf(S) \in SUBSET S
                                  /\ (S # {} => FirstOf(S) # {})
  BY <1>8, FirstIsThere DEF FirstOf
<1>14. chosen \in SUBSET playable
  BY <1>1, <1>3, <1>4, <1>6, <1>13
<1>15. playable # {} => chosen # {}
  BY <1>1, <1>3, <1>4, <1>6, <1>13
<1>16. ASSUME NEW s \in chosen
       PROVE  OnlyThere(e, id, s)
  <2>1. CASE member # {}
    <3>1. id.expr # Legacy
      BY <1>12, <2>1
    <3> QED
      BY <1>9, <3>1 DEF OnlyThere
  <2>2. CASE member = {} /\ finger # {}
    <3>1. s \in Holders(e, id)
      BY <1>1, <1>3, <1>11, <1>13, <2>2
    <3> QED
      BY <1>10, <3>1 DEF OnlyThere
  <2>3. CASE finger = {}
    BY <1>9, <2>3 DEF OnlyThere
  <2> QED
    BY <2>1, <2>2, <2>3
<1>17. \A s \in chosen : s \in Strings /\ OnTheNeck(id, s)
  BY <1>2, <1>14
<1> QED
  BY <1>7, <1>15, <1>16, <1>17 DEF chosen

\* A note on: every pitch stays on one string, and the pitch is owed what it
\* was, or one more if some string can play it.
Heard(id) == IF Reachable(id) THEN 1 ELSE 0

Heeded(e, r, id) ==
    /\ Settled(r)
    /\ \A j \in Ids : e.outstanding[j] + (IF j = id THEN Heard(id) ELSE 0)
                          <= r.outstanding[j]

LEMMA PlayNoteSettles ==
    ASSUME NEW e, Settled(e), solo = {}, NEW id \in Ids, NEW r \in PlayNote(e, id)
    PROVE  Heeded(e, r, id)
<1> DEFINE strings == ChooseString(e, id, playStyle)
<1>1. PlayNote(e, id) = IF strings = {} THEN {e}
                        ELSE {TakeNote(e, id, s, timing) :
                                 s \in strings, timing \in Timings}
  BY DEF PlayNote
<1>2. /\ \A s \in strings :
            s \in Strings /\ OnTheNeck(id, s) /\ OnlyThere(e, id, s)
      /\ Reachable(id) => strings # {}
  BY StringIsChosen
<1>3. e.outstanding \in [Ids -> Nat]
  BY DEF Settled, Owing
<1> HIDE DEF strings
<1>4. CASE strings = {}
  <2>1. r = e /\ ~Reachable(id)
    BY <1>1, <1>2, <1>4
  <2>2. \A j \in Ids : e.outstanding[j] \in Nat
    BY <1>3
  <2> QED
    BY <2>1, <2>2 DEF Heeded, Heard
<1>5. CASE strings # {}
  <2>1. r \in {TakeNote(e, id, s, timing) : s \in strings, timing \in Timings}
    BY <1>1, <1>5
  <2>2. PICK s \in strings, timing \in Timings : r = TakeNote(e, id, s, timing)
    BY <2>1
  <2>3. Settled(r) /\ r.outstanding = [e.outstanding EXCEPT ![id] = @ + 1]
    BY <1>2, <2>2, TakeNoteSettles
  <2>4. \A j \in Ids : e.outstanding[j] \in Nat
    BY <1>3
  <2>5. \A j \in Ids : r.outstanding[j]
                         = e.outstanding[j] + (IF j = id THEN 1 ELSE 0)
    BY <1>3, <2>3
  <2> QED
    BY <2>3, <2>4, <2>5 DEF Heeded, Heard
<1> QED
  BY <1>4, <1>5

\* A hand that takes a shape has each pitch of it on its string or nowhere, and
\* leaves the other pitches where they are.
LEMMA RefingeredSettles ==
    ASSUME NEW e, Settled(e), NEW ids \in SUBSET Ids, NEW a,
           \A i \in ids : a[i] \in Strings /\ OnTheNeck(i, a[i])
    PROVE  LET r == Refingered(e, ids, a) IN
           /\ Settled(r)
           /\ r.outstanding = e.outstanding
           /\ \A i \in ids : Holders(r, i) \subseteq {a[i]}
<1> DEFINE r == Refingered(e, ids, a)
           sources(i) == Holders(e, i) \ {a[i]}
           arriving(s) == {i \in ids : a[i] = s /\ sources(i) # {}}
           leaves(s, i) == /\ a[i] # s
                           /\ e.held[s].count > 0
                           /\ \/ e.held[s].id = i
                              \/ i.expr # Legacy /\ e.held[s].id.expr = i.expr
           taken(s) == \E i \in ids : a[i] = s /\ e.held[s].id # i
           first(s) == CHOOSE i \in arriving(s) : TRUE
           owners(s) ==
               IF arriving(s) # {}
               THEN [id |-> first(s), count |-> e.held[Min(sources(first(s)))].count]
               ELSE IF taken(s) \/ \E i \in ids : leaves(s, i) THEN Free
               ELSE e.held[s]
           H == [s \in Strings |-> owners(s)]
<1>0. Owing(e) /\ IsEngine(e) /\ Counted(e) /\ Alone(e) /\ e.broadcast = Unmarked
  BY DEF Settled, Owing
<1>1. r = [e EXCEPT !.held = H]
  BY DEF Refingered
<1>2. Owing(r) /\ r.outstanding = e.outstanding
  BY <1>0, RefingeringOwes
<1> HIDE DEF r
<1>3. r.held = H /\ r.broadcast = Unmarked
  BY <1>0, <1>1 DEF IsEngine
<1>4. \A s : arriving(s) # {} => first(s) \in ids /\ a[first(s)] = s
  OBVIOUS
<1>5. ASSUME NEW s \in Strings, NEW j \in Ids, r.held[s].id = j
      PROVE  /\ j \in ids => a[j] = s
             /\ j \notin ids => s \in Holders(e, j)
  <2>1. r.held[s] = owners(s)
    BY <1>3
  <2>2. j # NoId
    BY IdsAreNotes
  <2>3. CASE arriving(s) # {}
    <3>1. r.held[s].id = first(s)
      <4> HIDE DEF H, first, arriving, taken, leaves
      <4> QED
        BY <2>1, <2>3
    <3> QED
      BY <1>4, <1>5, <2>3, <3>1
  <2>4. CASE arriving(s) = {} /\ (taken(s) \/ \E i \in ids : leaves(s, i))
    <3>1. r.held[s] = Free
      <4> HIDE DEF H, first, arriving, taken, leaves
      <4> QED
        BY <2>1, <2>4
    <3> QED
      BY <1>5, <2>2, <3>1 DEF Free
  <2>5. CASE arriving(s) = {} /\ ~(taken(s) \/ \E i \in ids : leaves(s, i))
    <3>1. r.held[s] = e.held[s]
      <4> HIDE DEF H, first, arriving, taken, leaves
      <4> QED
        BY <2>1, <2>5
    <3>2. e.held[s].id = j
      BY <1>5, <3>1
    <3>3. e.held[s].count > 0
      BY <1>0, <2>2, <3>2 DEF Counted, Free
    <3>4. j \in ids => ~leaves(s, j)
      BY <2>5
    <3> QED
      BY <3>2, <3>3, <3>4 DEF Holders
  <2> QED
    BY <2>3, <2>4, <2>5
<1> HIDE DEF H
<1>6. /\ \A i \in ids : Holders(r, i) \subseteq {a[i]}
      /\ \A j \in Ids \ ids : Holders(r, j) \subseteq Holders(e, j)
  BY <1>5 DEF Holders
<1>7. Alone(r)
  <2> SUFFICES ASSUME NEW j \in Ids
               PROVE  /\ \A s, t \in Holders(r, j) : s = t
                      /\ \A s \in Holders(r, j) : OnTheNeck(j, s)
    BY DEF Alone
  <2>1. CASE j \in ids
    BY <1>6, <2>1
  <2>2. CASE j \notin ids
    BY <1>0, <1>6, <2>2 DEF Alone
  <2> QED
    BY <2>1, <2>2
<1> QED
  BY <1>2, <1>3, <1>6, <1>7 DEF Settled, r

\* Each pitch of a chord comes in its order.
LEMMA CanonicalReaches ==
    ASSUME NEW ids \in SUBSET Ids, IsFiniteSet(ids), NEW i \in ids
    PROVE  \E n \in 1 .. Cardinality(ids) : Canonical(ids)[n] = i
<1> DEFINE K == Cardinality(ids)
           C == Canonical(ids)
           f == [n \in 1 .. K |-> C[n]]
<1>1. /\ K \in Nat /\ C \in [1 .. K -> ids]
      /\ \A m, n \in 1 .. K : C[m] = C[n] => m = n
  BY CanonicalOnce
<1> HIDE DEF C, K
<1>2. IsFiniteSet(1 .. K) /\ Cardinality(1 .. K) = K
  <2>1. 1 \in Int /\ K \in Int
    BY <1>1
  <2>2. IsFiniteSet(1 .. K)
    BY <2>1, FS_Interval, Zenon
  <2>3. Cardinality(1 .. K) = IF 1 > K THEN 0 ELSE K - 1 + 1
    BY <2>1, FS_Interval, Zenon
  <2> QED
    BY <1>1, <2>2, <2>3
<1>3. f \in Injection(1 .. K, ids)
  BY <1>1 DEF Injection, IsInjective
<1>4. Cardinality(1 .. K) = Cardinality(ids)
  BY <1>2 DEF K
<1>5. f \in Surjection(1 .. K, ids)
  <2> HIDE DEF f
  <2> QED
    BY <1>2, <1>3, <1>4, FS_Injection, Zenon
<1>6. \E n \in 1 .. K : f[n] = i
  <2> HIDE DEF f
  <2> QED
    BY <1>5 DEF Surjection
<1> QED
  BY <1>6 DEF K, C

\* No pitch but the next event's is struck more often than before.
LEMMA OnlyNextIsStruck ==
    ASSUME NEW k \in Nat, NEW l \in Nat, NEW C, NEW D,
           NEW m \in 0 .. k + l, m < k + l, NEW id,
           m < k => id = C[m + 1],
           ~(m < k) => id = D[m + 1 - k],
           NEW j
    PROVE  StruckSoFar(C, k, D, l, j, m + 1)
             <= StruckSoFar(C, k, D, l, j, m) + (IF j = id THEN 1 ELSE 0)
<1>1. CASE m < k
  <2>1. ~Reached(D, l, j, m + 1 - k) /\ ~Reached(D, l, j, m - k)
    BY <1>1 DEF Reached
  <2>2. Reached(C, k, j, m + 1) => Reached(C, k, j, m) \/ j = id
    <3> SUFFICES ASSUME NEW n \in 1 .. k, n <= m + 1, C[n] = j, j # id
                 PROVE  Reached(C, k, j, m)
      BY DEF Reached
    <3>1. n # m + 1
      BY <1>1
    <3>2. n <= m
      BY <3>1
    <3> QED
      BY <3>2 DEF Reached
  <2> QED
    BY <2>1, <2>2 DEF StruckSoFar
<1>2. CASE ~(m < k)
  <2>1. Reached(C, k, j, m + 1) => Reached(C, k, j, m)
    BY <1>2 DEF Reached
  <2>2. Reached(D, l, j, m + 1 - k) => Reached(D, l, j, m - k) \/ j = id
    <3> SUFFICES ASSUME NEW n \in 1 .. l, n <= m + 1 - k, D[n] = j, j # id
                 PROVE  Reached(D, l, j, m - k)
      BY DEF Reached
    <3>1. n # m + 1 - k
      BY <1>2
    <3>2. n <= m - k
      BY <3>1
    <3> QED
      BY <3>2 DEF Reached
  <2> QED
    BY <2>1, <2>2 DEF StruckSoFar
<1> QED
  BY <1>1, <1>2

\* The engine a chord's shape has reached after some of its events.
InShape(f, e, ids, a, rose) ==
    /\ Settled(f)
    /\ \A i \in ids : Holders(f, i) \subseteq {a[i]}
    /\ \A j \in Ids : e.outstanding[j] + rose[j] <= f.outstanding[j]

\* One event more of it.
LEMMA ShapeGoesOn ==
    ASSUME NEW e, e.outstanding \in [Ids -> Nat], NEW ids \in SUBSET Ids, NEW a,
           NEW id \in ids, a[id] \in Strings, OnTheNeck(id, a[id]),
           NEW old, \A j \in Ids : old[j] \in Nat,
           NEW new, \A j \in Ids : new[j] \in Nat
                                   /\ new[j] <= old[j] + (IF j = id THEN 1 ELSE 0),
           NEW f, InShape(f, e, ids, a, old), NEW timing
    PROVE  InShape(TakeNote(f, id, a[id], timing), e, ids, a, new)
<1> DEFINE s == a[id]
           r == TakeNote(f, id, s, timing)
<1>1. Settled(f) /\ Holders(f, id) \subseteq {s} /\ f.outstanding \in [Ids -> Nat]
      /\ \A j \in Ids : e.outstanding[j] + old[j] <= f.outstanding[j]
  BY DEF InShape, Settled, Owing
<1>2. OnlyThere(f, id, s)
  BY <1>1 DEF OnlyThere
<1>3. /\ Settled(r)
      /\ r.outstanding = [f.outstanding EXCEPT ![id] = @ + 1]
      /\ \A j \in Ids : Holders(r, j) \subseteq (IF j = id THEN {s} ELSE Holders(f, j))
  BY <1>1, <1>2, TakeNoteSettles
<1> HIDE DEF r
<1>4. \A i \in ids : Holders(r, i) \subseteq {a[i]}
  <2> SUFFICES ASSUME NEW i \in ids PROVE Holders(r, i) \subseteq {a[i]}
    OBVIOUS
  <2>1. CASE i = id
    BY <1>3, <2>1
  <2>2. CASE i # id
    BY <1>3, <2>2 DEF InShape
  <2> QED
    BY <2>1, <2>2
<1>5. \A j \in Ids : e.outstanding[j] + new[j] <= r.outstanding[j]
  <2> SUFFICES ASSUME NEW j \in Ids
               PROVE  e.outstanding[j] + new[j] <= r.outstanding[j]
    OBVIOUS
  <2>1. r.outstanding[j] = f.outstanding[j] + (IF j = id THEN 1 ELSE 0)
    BY <1>1, <1>3
  <2>2. e.outstanding[j] \in Nat /\ f.outstanding[j] \in Nat
    BY <1>1
  <2> QED
    BY <1>1, <2>1, <2>2
<1> QED
  BY <1>3, <1>4, <1>5 DEF InShape, r

\* A chord that fits the neck is owed one Note Off more for each event.
LEMMA PlayShapeSettles ==
    ASSUME NEW e, Settled(e), NEW ids \in SUBSET Ids, NEW repeats \in SUBSET ids,
           IsFiniteSet(ids), IsFiniteSet(repeats), NEW a,
           \A i \in ids : a[i] \in Strings /\ OnTheNeck(i, a[i]),
           NEW r \in PlayShape(e, ids, repeats, a)
    PROVE  /\ Settled(r)
           /\ \A j \in Ids : e.outstanding[j] + Once(ids, j) + Once(repeats, j)
                                <= r.outstanding[j]
<1> DEFINE events == ShapeEvents(ids, repeats)
           N == Len(events)
           C == Canonical(ids)
           D == Canonical(repeats)
           k == Cardinality(ids)
           l == Cardinality(repeats)
           rose(m) == [j \in Ids |-> StruckSoFar(C, k, D, l, j, m)]
<1>0. repeats \in SUBSET Ids
  OBVIOUS
<1>1. k \in Nat /\ C \in [1 .. k -> ids]
  BY CanonicalOnce
<1>2. l \in Nat /\ D \in [1 .. l -> repeats]
  BY <1>0, CanonicalOnce
<1>3. PICK struck : ShapeWalk(e, ids, repeats, a, struck) /\ r \in struck[N]
  BY ShapeIsWalked
<1>13. /\ \A i \in ids : \E n \in 1 .. k : C[n] = i
       /\ \A i \in repeats : \E n \in 1 .. l : D[n] = i
  BY <1>0, CanonicalReaches
<1> HIDE DEF C, D, k, l
<1>4. /\ N = k + l
      /\ \A n \in 1 .. N : /\ n <= k => events[n] = C[n]
                           /\ ~(n <= k) => events[n] = D[n - k]
                           /\ events[n] \in ids
  <2>1. C \in Seq(ids) /\ Len(C) = k
    BY <1>1, SeqDef
  <2>2. D \in Seq(repeats) /\ Len(D) = l
    BY <1>2, SeqDef
  <2>3. D \in Seq(ids)
    BY <2>2, SeqMonotonic
  <2>4. events = C \o D
    BY DEF ShapeEvents, C, D
  <2> HIDE DEF events
  <2>5. /\ events \in Seq(ids) /\ Len(events) = k + l
        /\ \A n \in 1 .. k + l : events[n] = IF n <= k THEN C[n] ELSE D[n - k]
    BY <2>1, <2>2, <2>3, <2>4, ConcatProperties
  <2> QED
    BY <2>5
<1>5. \A m : \A j \in Ids : rose(m)[j] \in 0 .. 2
                            /\ rose(m)[j] = StruckSoFar(C, k, D, l, j, m)
  BY DEF StruckSoFar
<1>6. \A m : \A j \in Ids : rose(m)[j] \in Nat
  <2> HIDE DEF rose
  <2> QED
    BY <1>5
<1>7. e.outstanding \in [Ids -> Nat]
  BY DEF Settled, Owing
<1> DEFINE G == {m \in 0 .. N : \A f \in struck[m] : InShape(f, e, ids, a, rose(m))}
<1>8. 0 \in G
  <2>1. struck[0] = {Refingered(e, ids, a)}
    BY <1>3 DEF ShapeWalk
  <2> DEFINE f == Refingered(e, ids, a)
  <2>2. /\ Settled(f) /\ f.outstanding = e.outstanding
        /\ \A i \in ids : Holders(f, i) \subseteq {a[i]}
    BY RefingeredSettles
  <2> HIDE DEF f
  <2>3. \A j \in Ids : rose(0)[j] = 0
    <3>1. \A j : StruckSoFar(C, k, D, l, j, 0) = 0
      <4>1. \A j : ~Reached(C, k, j, 0) /\ ~Reached(D, l, j, 0 - k)
        BY <1>1, <1>2 DEF Reached
      <4> QED
        BY <4>1 DEF StruckSoFar
    <3> QED
      BY <1>5, <3>1
  <2> HIDE DEF rose
  <2>4. InShape(f, e, ids, a, rose(0))
    <3>1. \A j \in Ids : e.outstanding[j] \in Nat
      BY <1>7
    <3> QED
      BY <2>2, <2>3, <3>1 DEF InShape
  <2> HIDE DEF N
  <2>5. 0 \in 0 .. N
    BY <1>1, <1>2, <1>4
  <2> QED
    BY <2>1, <2>4, <2>5 DEF f
<1>9. ASSUME NEW m \in 0 .. N, m < N, m \in G
      PROVE  m + 1 \in G
  <2> DEFINE id == events[m + 1]
  <2>1. m + 1 \in 0 .. N /\ m + 1 \in 1 .. N /\ (m + 1) - 1 = m
    BY <1>1, <1>2, <1>4, <1>9
  <2>2. struck[m + 1] = StruckNotes(struck[m], id, a[id])
    BY <1>3, <2>1 DEF ShapeWalk
  <2>3. id \in ids
    BY <1>4, <2>1
  <2>4. \A j \in Ids : rose(m + 1)[j] <= rose(m)[j] + (IF j = id THEN 1 ELSE 0)
    <3>1. m < k => id = C[m + 1]
      BY <1>1, <1>2, <1>4, <2>1
    <3>2. ~(m < k) => id = D[m + 1 - k]
      BY <1>1, <1>2, <1>4, <2>1
    <3>3. m \in 0 .. k + l /\ m < k + l
      BY <1>4, <1>9
    <3> HIDE DEF id, N, events
    <3>4. \A j : StruckSoFar(C, k, D, l, j, m + 1)
                    <= StruckSoFar(C, k, D, l, j, m) + (IF j = id THEN 1 ELSE 0)
      BY <1>1, <1>2, <3>1, <3>2, <3>3, OnlyNextIsStruck
    <3> HIDE DEF rose
    <3> QED
      BY <1>5, <3>4
  <2> HIDE DEF id
  <2> DEFINE old == rose(m)
             new == rose(m + 1)
  <2>5. /\ \A j \in Ids : old[j] \in Nat
        /\ \A j \in Ids : new[j] \in Nat
                          /\ new[j] <= old[j] + (IF j = id THEN 1 ELSE 0)
    BY <1>6, <2>4
  <2>6. ASSUME NEW f \in struck[m + 1]
        PROVE  InShape(f, e, ids, a, new)
    <3>1. PICK g \in struck[m], timing \in Timings :
             f = TakeNote(g, id, a[id], timing)
      BY <2>2 DEF StruckNotes
    <3>2. InShape(g, e, ids, a, old)
      BY <1>9, <3>1
    <3> HIDE DEF old, new, N, G
    <3>3. a[id] \in Strings /\ OnTheNeck(id, a[id])
      BY <2>3
    <3>4. InShape(TakeNote(g, id, a[id], timing), e, ids, a, new)
      BY <1>7, <2>3, <2>5, <3>2, <3>3, ShapeGoesOn
    <3> QED
      BY <3>1, <3>4
  <2> HIDE DEF N, rose
  <2> QED
    BY <2>1, <2>6
<1>10. N \in Nat
  BY <1>1, <1>2, <1>4
<1>11. N \in G
  <2> HIDE DEF N, G
  <2> QED
    BY <1>8, <1>9, <1>10, WalkUp
<1>12. InShape(r, e, ids, a, rose(N))
  BY <1>3, <1>11
<1>14. \A j \in Ids : rose(N)[j] = Once(ids, j) + Once(repeats, j)
  <2>1. \A j : Reached(C, k, j, N) <=> j \in ids
    <3>1. \A j : Reached(C, k, j, N) => j \in ids
      BY <1>1 DEF Reached
    <3>2. \A n \in 1 .. k : n <= N
      BY <1>1, <1>2, <1>4
    <3> HIDE DEF N
    <3> QED
      BY <1>13, <3>1, <3>2 DEF Reached
  <2>2. \A j : Reached(D, l, j, N - k) <=> j \in repeats
    <3>1. \A j : Reached(D, l, j, N - k) => j \in repeats
      BY <1>2 DEF Reached
    <3>2. \A n \in 1 .. l : n <= N - k
      BY <1>1, <1>2, <1>4
    <3> HIDE DEF N
    <3> QED
      BY <1>13, <3>1, <3>2 DEF Reached
  <2> HIDE DEF N
  <2> QED
    BY <2>1, <2>2 DEF StruckSoFar, Once
<1> HIDE DEF rose, N
<1>15. \A j \in Ids : e.outstanding[j] + rose(N)[j] <= r.outstanding[j]
  BY <1>12 DEF InShape
<1>16. \A j \in Ids : /\ e.outstanding[j] \in Nat
                      /\ Once(ids, j) \in Nat /\ Once(repeats, j) \in Nat
  BY <1>7 DEF Once
<1> QED
  BY <1>12, <1>14, <1>15, <1>16 DEF InShape

\* The engine after some of the notes of a chord that come one by one.
InRow(f, e, rose) ==
    /\ Settled(f)
    /\ \A j \in Ids : e.outstanding[j] + rose[j] <= f.outstanding[j]

\* One note more of it.
LEMMA RowGoesOn ==
    ASSUME NEW e, e.outstanding \in [Ids -> Nat], solo = {}, NEW id \in Ids,
           NEW old, \A j \in Ids : old[j] \in Nat,
           NEW f, InRow(f, e, old), NEW r \in PlayNote(f, id)
    PROVE  InRow(r, e, [j \in Ids |-> old[j] + (IF j = id THEN Heard(id) ELSE 0)])
<1>1. Heeded(f, r, id) /\ f.outstanding \in [Ids -> Nat]
  BY PlayNoteSettles DEF InRow, Settled, Owing
<1>2. r.outstanding \in [Ids -> Nat] /\ Settled(r)
  BY <1>1 DEF Heeded, Settled, Owing
<1>3. Heard(id) \in Nat
  BY DEF Heard
<1>4. ASSUME NEW j \in Ids
      PROVE  e.outstanding[j] + (old[j] + (IF j = id THEN Heard(id) ELSE 0))
                <= r.outstanding[j]
  <2>1. /\ e.outstanding[j] \in Nat /\ f.outstanding[j] \in Nat
        /\ r.outstanding[j] \in Nat /\ old[j] \in Nat
    BY <1>1, <1>2
  <2>2. /\ e.outstanding[j] + old[j] <= f.outstanding[j]
        /\ f.outstanding[j] + (IF j = id THEN Heard(id) ELSE 0) <= r.outstanding[j]
    BY <1>1 DEF InRow, Heeded
  <2> QED
    BY <1>3, <2>1, <2>2
<1> QED
  BY <1>2, <1>4 DEF InRow

\* A chord too wide for the neck is owed a Note Off for each event that some
\* string can play.
LEMMA PlaySinglySettles ==
    ASSUME NEW e, Settled(e), solo = {},
           NEW ids \in SUBSET Ids, NEW repeats \in SUBSET ids,
           IsFiniteSet(ids), NEW r \in PlaySingly(e, ids, repeats)
    PROVE  /\ Settled(r)
           /\ \A j \in Ids : Reachable(j) =>
                 e.outstanding[j] + Once(ids, j) + Once(repeats, j)
                    <= r.outstanding[j]
<1> DEFINE C == Canonical(ids)
           N == Len(C)
           k == Cardinality(ids)
           rose(m) == [j \in Ids |-> IF Reachable(j) /\ Reached(C, k, j, m)
                                     THEN 1 + Once(repeats, j) ELSE 0]
<1>1. /\ k \in Nat /\ C \in [1 .. k -> ids]
      /\ \A m, n \in 1 .. k : C[m] = C[n] => m = n
  BY CanonicalOnce
<1>2. PICK played : SingleWalk(e, ids, repeats, played) /\ r \in played[N]
  BY SinglyIsWalked
<1>3. \A i \in ids : \E n \in 1 .. k : C[n] = i
  BY CanonicalReaches
<1>4. N = k
  <2>1. C \in Seq(ids) /\ Len(C) = k
    <3> HIDE DEF C, k
    <3> QED
      BY <1>1, SeqDef
  <2> QED
    BY <2>1
<1>5. ASSUME NEW m \in 1 .. k
      PROVE  played[m] = IF C[m] \in repeats
                         THEN NextNotes(NextNotes(played[m - 1], C[m]), C[m])
                         ELSE NextNotes(played[m - 1], C[m])
  <2>1. m \in 1 .. Len(Canonical(ids))
    BY <1>4
  <2> QED
    BY <1>2, <2>1 DEF SingleWalk
<1>6. played[0] = {e}
  BY <1>2 DEF SingleWalk
<1>7. r \in played[k]
  BY <1>2, <1>4
<1> HIDE DEF C, N, k
<1>8. \A m : \A j \in Ids : rose(m)[j] \in Nat
  BY DEF Once
<1>9. e.outstanding \in [Ids -> Nat]
  BY DEF Settled, Owing
<1> DEFINE G == {m \in 0 .. k : \A f \in played[m] : InRow(f, e, rose(m))}
<1>10. 0 \in G
  <2>1. \A j \in Ids : rose(0)[j] = 0
    BY <1>1 DEF Reached
  <2> HIDE DEF rose
  <2>2. InRow(e, e, rose(0))
    <3>1. \A j \in Ids : e.outstanding[j] \in Nat
      BY <1>9
    <3> QED
      BY <2>1, <3>1 DEF InRow
  <2>3. 0 \in 0 .. k
    BY <1>1
  <2> QED
    BY <1>6, <2>2, <2>3
<1>11. ASSUME NEW m \in 0 .. k, m < k, m \in G
       PROVE  m + 1 \in G
  <2> DEFINE id == C[m + 1]
  <2>1. m + 1 \in 0 .. k /\ m + 1 \in 1 .. k /\ (m + 1) - 1 = m
    BY <1>1, <1>11
  <2>2. id \in ids /\ id \in Ids
    BY <1>1, <2>1
  <2>3. played[m + 1] = IF id \in repeats
                        THEN NextNotes(NextNotes(played[m], id), id)
                        ELSE NextNotes(played[m], id)
    BY <1>5, <2>1
  <2>4. Reached(C, k, id, m + 1) /\ ~Reached(C, k, id, m)
    BY <1>1, <2>1 DEF Reached
  <2>5. \A j : j # id => (Reached(C, k, j, m + 1) => Reached(C, k, j, m))
    <3> SUFFICES ASSUME NEW j, j # id, Reached(C, k, j, m + 1)
                 PROVE  Reached(C, k, j, m)
      OBVIOUS
    <3>1. PICK n \in 1 .. k : n <= m + 1 /\ C[n] = j
      BY DEF Reached
    <3>2. n # m + 1
      BY <3>1
    <3>3. n <= m
      BY <1>1, <2>1, <3>1, <3>2
    <3> QED
      BY <3>1, <3>3 DEF Reached
  <2> DEFINE old == rose(m)
             mid == [j \in Ids |-> old[j] + (IF j = id THEN Heard(id) ELSE 0)]
             new == [j \in Ids |-> mid[j] + (IF j = id THEN Heard(id) ELSE 0)]
  <2>6. \A j \in Ids : rose(m + 1)[j] <= IF id \in repeats THEN new[j] ELSE mid[j]
    <3> SUFFICES ASSUME NEW j \in Ids
                 PROVE  rose(m + 1)[j] <= IF id \in repeats THEN new[j] ELSE mid[j]
      OBVIOUS
    <3> HIDE DEF id
    <3>1. CASE j # id
      <4>1. rose(m + 1)[j] <= old[j]
        BY <2>5, <3>1 DEF Once
      <4>2. mid[j] = old[j] /\ new[j] = old[j]
        BY <1>8, <3>1
      <4> QED
        BY <4>1, <4>2
    <3>2. CASE j = id
      BY <2>4, <3>2 DEF Once, Heard
    <3> QED
      BY <3>1, <3>2
  <2> HIDE DEF id
  <2>7. /\ \A j \in Ids : old[j] \in Nat
        /\ \A j \in Ids : mid[j] \in Nat
        /\ \A j \in Ids : new[j] \in Nat
    BY <1>8 DEF Heard
  <2>8. \A f \in played[m] : InRow(f, e, old)
    BY <1>11
  <2> HIDE DEF old
  <2>9. \A f \in NextNotes(played[m], id) : InRow(f, e, mid)
    BY <1>9, <2>2, <2>7, <2>8, RowGoesOn DEF NextNotes
  <2> HIDE DEF mid
  <2>10. \A f \in NextNotes(NextNotes(played[m], id), id) : InRow(f, e, new)
    <3> SUFFICES ASSUME NEW g \in NextNotes(played[m], id), NEW f \in PlayNote(g, id)
                 PROVE  InRow(f, e, new)
      BY DEF NextNotes
    <3>1. InRow(g, e, mid)
      BY <2>9
    <3> QED
      BY <1>9, <2>2, <2>7, <3>1, RowGoesOn
  <2> HIDE DEF new, rose
  <2>11. ASSUME NEW f \in played[m + 1]
         PROVE  InRow(f, e, rose(m + 1))
    <3> DEFINE top == IF id \in repeats THEN new ELSE mid
    <3>1. InRow(f, e, top)
      <4>1. CASE id \in repeats
        BY <2>3, <2>10, <4>1
      <4>2. CASE id \notin repeats
        BY <2>3, <2>9, <4>2
      <4> QED
        BY <4>1, <4>2
    <3>2. \A j \in Ids : rose(m + 1)[j] <= top[j] /\ top[j] \in Nat
      BY <2>6, <2>7
    <3> HIDE DEF top
    <3>3. /\ Settled(f) /\ f.outstanding \in [Ids -> Nat]
          /\ \A j \in Ids : e.outstanding[j] + top[j] <= f.outstanding[j]
      BY <3>1 DEF InRow, Settled, Owing
    <3>4. \A j \in Ids : /\ e.outstanding[j] \in Nat /\ f.outstanding[j] \in Nat
                         /\ rose(m + 1)[j] \in Nat
      BY <1>8, <1>9, <3>3
    <3>5. \A j \in Ids : e.outstanding[j] + rose(m + 1)[j] <= f.outstanding[j]
      BY <3>2, <3>3, <3>4
    <3> QED
      BY <3>3, <3>5 DEF InRow
  <2> QED
    BY <2>1, <2>11
<1>12. k \in G
  <2>1. k \in Nat
    BY <1>1
  <2>2. \A m \in 0 .. k : m < k /\ m \in G => m + 1 \in G
    <3> HIDE DEF G
    <3> QED
      BY <1>11
  <2> HIDE DEF G
  <2> QED
    BY <1>10, <2>1, <2>2, WalkUp
<1>13. InRow(r, e, rose(k))
  BY <1>7, <1>12
<1>14. \A j \in Ids : Reachable(j) =>
          Once(ids, j) + Once(repeats, j) <= rose(k)[j]
  <2> SUFFICES ASSUME NEW j \in Ids, Reachable(j)
               PROVE  Once(ids, j) + Once(repeats, j) <= rose(k)[j]
    OBVIOUS
  <2>1. CASE j \in ids
    <3>1. Reached(C, k, j, k)
      BY <1>1, <1>3, <2>1 DEF Reached
    <3> QED
      BY <2>1, <3>1 DEF Once
  <2>2. CASE j \notin ids
    BY <1>8, <2>2 DEF Once
  <2> QED
    BY <2>1, <2>2
<1> HIDE DEF rose
<1>15. \A j \in Ids : /\ e.outstanding[j] \in Nat /\ rose(k)[j] \in Nat
                      /\ r.outstanding[j] \in Nat
                      /\ Once(ids, j) \in Nat /\ Once(repeats, j) \in Nat
  BY <1>8, <1>9, <1>13 DEF Once, InRow, Settled, Owing
<1> QED
  BY <1>13, <1>14, <1>15 DEF InRow

\* The shapes a chord may take are the neck's.
LEMMA BestAreShapes ==
    ASSUME NEW e, NEW ids, NEW a \in BestShapes(e, ids)
    PROVE  a \in Shapes(ids)
BY DEF BestShapes, Cheapest

\* Every chord of a hand without solo masks is owed a Note Off for each event
\* that some string can play.
LEMMA PlayChordSettles ==
    ASSUME NEW e, Settled(e), solo = {},
           NEW ids \in SUBSET Ids, NEW repeats \in SUBSET ids,
           IsFiniteSet(ids), IsFiniteSet(repeats),
           NEW r \in PlayChord(e, ids, repeats)
    PROVE  /\ Settled(r)
           /\ \A j \in Ids : Reachable(j) =>
                 e.outstanding[j] + Once(ids, j) + Once(repeats, j)
                    <= r.outstanding[j]
<1>1. CASE r \in PlaySingly(e, ids, repeats)
  BY <1>1, PlaySinglySettles
<1>2. CASE r \notin PlaySingly(e, ids, repeats)
  <2>1. PICK a \in BestShapes(e, ids) : r \in PlayShape(e, ids, repeats, a)
    BY <1>2 DEF PlayChord
  <2>2. a \in Shapes(ids)
    BY <2>1, BestAreShapes
  <2>3. \A i \in ids : a[i] \in Strings /\ OnTheNeck(i, a[i])
    BY <2>2 DEF Shapes, Allowed
  <2> QED
    BY <2>1, <2>3, PlayShapeSettles
<1> QED
  BY <1>1, <1>2

\* A Note Off takes one from what its pitch is owed, and lifts the last finger
\* of it only if no other is owed.
LEMMA LiftSettles ==
    ASSUME NEW e, Settled(e), NEW id \in Ids
    PROVE  LET r == Lift(e, id) IN
           /\ Settled(r)
           /\ \A j \in Ids : j # id => r.outstanding[j] = e.outstanding[j]
           /\ e.outstanding[id] - 1 <= r.outstanding[id]
           /\ Owners(e, id) > 0 /\ Owners(r, id) = 0 => e.outstanding[id] <= 1
<1> DEFINE r == Lift(e, id)
           f == LiftFingers(e, id)
           h == Cardinality(Holders(e, id))
           out == e.outstanding[id]
           left == Max({0, out - h})
<1>1. /\ Owing(e) /\ IsEngine(e) /\ Counted(e) /\ e.outstanding \in [Ids -> Nat]
      /\ Alone(e) /\ e.broadcast = Unmarked
  BY DEF Settled, Owing
<1>2. /\ out \in Nat /\ h \in Nat /\ id # NoId
      /\ IsFiniteSet(Holders(e, id)) /\ Owners(e, id) \in Nat
  BY <1>1, HeldIsFinite, IdsAreNotes
<1>3. /\ Owing(r) /\ \A j \in Ids : j # id => r.outstanding[j] = e.outstanding[j]
  BY <1>1, LiftOwes
<1>4. /\ IsEngine(f)
      /\ \A t \in Strings : f.held[t] = IF t \in Holders(e, id)
                                       THEN OneLess(e.held[t]) ELSE e.held[t]
  BY <1>1, LiftFingersIs
<1>5. f.outstanding = e.outstanding /\ f.broadcast = e.broadcast
  BY <1>1 DEF LiftFingers, IsEngine
<1>6. ~e.broadcast[id]
  BY <1>1 DEF Unmarked
<1>7. \/ /\ out > Owners(e, id) /\ r.held = e.held /\ r.broadcast = Unmarked
         /\ r.outstanding = [e.outstanding EXCEPT ![id] = out - 1]
      \/ /\ ~(out > Owners(e, id)) /\ r.held = f.held /\ r.broadcast = Unmarked
         /\ r.outstanding = [e.outstanding EXCEPT ![id] = left]
  <2> HIDE DEF f, left
  <2>1. CASE out > Owners(e, id)
    <3> DEFINE B == [e.broadcast EXCEPT ![id] = @ /\ Holders(e, id) # {}]
    <3>1. \E O : /\ O = [e.outstanding EXCEPT ![id] = out - 1]
                /\ r = [[e EXCEPT !.outstanding = O] EXCEPT !.broadcast = B]
      BY <1>1, <1>6, <2>1 DEF Lift, IsEngine
    <3>2. B = Unmarked
      BY <1>1 DEF Unmarked
    <3> HIDE DEF r, B
    <3> QED
      BY <1>1, <2>1, <3>1, <3>2 DEF IsEngine
  <2>2. CASE ~(out > Owners(e, id))
    <3> DEFINE B == [f.broadcast EXCEPT ![id] = @ /\ Holders(f, id) # {} /\ left # 0]
    <3>1. \E O : /\ O = [f.outstanding EXCEPT ![id] = left]
                /\ r = [[f EXCEPT !.outstanding = O] EXCEPT !.broadcast = B]
      BY <1>4, <2>2 DEF Lift, IsEngine, f, left
    <3>2. B = Unmarked
      BY <1>1, <1>5 DEF Unmarked
    <3> HIDE DEF r, B
    <3> QED
      BY <1>4, <1>5, <2>2, <3>1, <3>2 DEF IsEngine
  <2> QED
    BY <2>1, <2>2
<1> HIDE DEF r, f
<1>8. \A s, t \in Holders(e, id) : s = t
  BY <1>1 DEF Alone
<1>9. h <= 1
  <2>1. CASE Holders(e, id) = {}
    BY <2>1, FS_EmptySet
  <2>2. CASE Holders(e, id) # {}
    <3>1. PICK s : Holders(e, id) = {s}
      BY <1>8, <2>2
    <3> QED
      BY <3>1, FS_Singleton
  <2> QED
    BY <2>1, <2>2
<1>10. left = IF out - h > 0 THEN out - h ELSE 0
  <2>1. out - h \in Int
    BY <1>2
  <2> HIDE DEF out, h
  <2> QED
    BY <2>1, MaxIs
<1> HIDE DEF left, h
<1>11. e.outstanding[id] - 1 <= r.outstanding[id]
  <2>1. left \in Nat /\ out - 1 <= left
    BY <1>2, <1>9, <1>10
  <2>2. r.outstanding[id] = out - 1 \/ r.outstanding[id] = left
    BY <1>1, <1>7
  <2> QED
    BY <1>2, <2>1, <2>2
<1>12. \A t \in Strings : r.held[t] = e.held[t] \/ r.held[t] = OneLess(e.held[t])
  BY <1>4, <1>7
<1>13. ASSUME NEW t \in Strings
       PROVE  /\ OneLess(e.held[t]) = Free \/ /\ OneLess(e.held[t]).id = e.held[t].id
                                              /\ OneLess(e.held[t]).count > 0
              /\ e.held[t].count > 1 => OneLess(e.held[t]).id = e.held[t].id
                                        /\ OneLess(e.held[t]).count
                                              = e.held[t].count - 1
  <2>1. IsOwner(e.held[t])
    BY <1>1 DEF IsEngine
  <2>2. e.held[t] \in [id : {e.held[t].id}, count : Nat]
    BY <2>1 DEF IsOwner
  <2>3. CASE e.held[t].count > 1
    <3>1. OneLess(e.held[t]) = [e.held[t] EXCEPT !.count = @ - 1]
      BY <2>3 DEF OneLess
    <3>2. OneLess(e.held[t]).id = e.held[t].id
          /\ OneLess(e.held[t]).count = e.held[t].count - 1
      BY <2>2, <3>1
    <3> QED
      BY <2>2, <2>3, <3>2
  <2>4. CASE ~(e.held[t].count > 1)
    BY <2>4 DEF OneLess
  <2> QED
    BY <2>3, <2>4
<1>14. \A j \in Ids : Holders(r, j) \subseteq Holders(e, j)
  <2> SUFFICES ASSUME NEW j \in Ids, NEW t \in Strings, r.held[t].id = j
               PROVE  e.held[t].id = j
    BY DEF Holders
  <2>1. r.held[t] # Free
    BY IdsAreNotes DEF Free
  <2> QED
    BY <1>12, <1>13, <2>1
<1>15. Alone(r)
  BY <1>1, <1>14 DEF Alone
<1>16. ASSUME Owners(e, id) > 0, Owners(r, id) = 0
       PROVE  out <= 1
  <2>1. HeldBy(e, id) # {} /\ HeldBy(r, id) = {}
    <3>1. HeldBy(e, id) # {}
      BY <1>16, FS_EmptySet DEF Owners
    <3>2. IsFiniteSet(HeldBy(r, id))
      BY <1>3, HeldIsFinite DEF Owing
    <3>3. HeldBy(r, id) = {}
      BY <1>16, <3>2, FS_EmptySet DEF Owners
    <3> QED
      BY <3>1, <3>3
  <2>2. r.held # e.held
    <3>1. r.held = e.held => HeldBy(r, id) = HeldBy(e, id)
      BY DEF HeldBy, Holders
    <3> QED
      BY <2>1, <3>1
  <2>3. ~(out > Owners(e, id)) /\ r.held = f.held
    BY <1>7, <2>2
  <2>4. PICK p \in HeldBy(e, id) : TRUE
    BY <2>1
  <2> DEFINE s == p[1]
  <2>5. s \in Strings /\ Holds(e.held[s], id, p[2])
    <3>1. p = <<p[1], p[2]>>
      BY <2>4, HeldByIs
    <3> QED
      BY <2>4, <3>1, HeldByIs
  <2> HIDE DEF s
  <2>6. s \in Holders(e, id) /\ e.held[s].count \in Nat
    BY <1>1, <2>5 DEF Holds, Holders, IsEngine, IsOwner
  <2>7. ~(e.held[s].count > 1)
    <3> SUFFICES ASSUME e.held[s].count > 1 PROVE FALSE
      OBVIOUS
    <3>1. r.held[s] = OneLess(e.held[s])
      BY <1>4, <2>3, <2>5, <2>6
    <3>2. r.held[s].id = id /\ r.held[s].count = e.held[s].count - 1
      BY <1>13, <2>5, <3>1 DEF Holds
    <3>3. Holds(r.held[s], id, 1)
      BY <2>6, <3>2 DEF Holds
    <3>4. <<s, 1>> \in HeldBy(r, id)
      BY <2>5, <3>3, HeldByIs
    <3> QED
      BY <2>1, <3>4
  <2>8. HeldBy(e, id) \in SUBSET ({s} \X (1 .. 1))
    <3> SUFFICES ASSUME NEW q \in HeldBy(e, id) PROVE q \in {s} \X (1 .. 1)
      OBVIOUS
    <3>1. q = <<q[1], q[2]>>
      BY HeldByIs
    <3>2. q[1] \in Strings /\ Holds(e.held[q[1]], id, q[2])
      BY <3>1, HeldByIs
    <3>3. q[1] = s
      BY <1>8, <2>6, <3>2 DEF Holds, Holders
    <3>4. q[2] \in 1 .. 1
      BY <2>6, <2>7, <3>2, <3>3 DEF Holds
    <3> QED
      BY <3>1, <3>3, <3>4
  <2>9. Owners(e, id) <= 1
    <3>1. /\ IsFiniteSet({s} \X (1 .. 1)) /\ Cardinality({s} \X (1 .. 1)) = 1
      BY RowIs
    <3>2. Cardinality(HeldBy(e, id)) <= Cardinality({s} \X (1 .. 1))
      BY <2>8, <3>1, FS_Subset, Zenon
    <3> QED
      BY <3>1, <3>2 DEF Owners
  <2> QED
    BY <1>2, <2>3, <2>9
<1>17. Settled(r)
  BY <1>3, <1>7, <1>15 DEF Settled
<1> QED
  BY <1>3, <1>11, <1>16, <1>17 DEF r

\* Without solo masks the engine expects the Note Offs of every pitch that some
\* string can play, and no pitch is on two strings.
Apart ==
    client.solos = {} =>
        /\ solo = {}
        /\ Settled(engine)
        /\ due \in [Ids -> Nat]
        /\ \A id \in Ids : Reachable(id) => due[id] <= engine.outstanding[id]

\* An engine with the same fingers and account.
LEMMA SameSettles ==
    ASSUME NEW e, Settled(e), NEW r, IsEngine(r), r.held = e.held,
           r.outstanding = e.outstanding, r.broadcast = e.broadcast
    PROVE  Settled(r)
<1>1. \A j : Holders(r, j) = Holders(e, j)
  BY DEF Holders
<1>2. Owing(r)
  BY SameOwes DEF Settled
<1> QED
  BY <1>1, <1>2 DEF Settled, Alone

LEMMA SilenceSettles == Settled(Silenced)
<1>1. Owing(Silenced)
  BY SilenceOwes
<1>2. Alone(Silenced)
  <2>1. \A s \in Strings : Silenced.held[s] = Free
    BY SilencedIs
  <2>2. \A id \in Ids : Holders(Silenced, id) = {}
    BY <2>1, IdsAreNotes DEF Holders, Free
  <2> QED
    BY <2>2 DEF Alone
<1>3. Silenced.broadcast = Unmarked
  <2> DEFINE H == [s \in Strings |-> Free]
             V == [s \in Strings |-> Silent]
             O == [id \in Ids |-> 0]
  <2>1. Silenced = [held |-> H, voice |-> V, outstanding |-> O,
                    broadcast |-> Unmarked]
    BY DEF Silenced, Unmarked
  <2> HIDE DEF H, V, O
  <2> QED
    BY <2>1
<1> QED
  BY <1>1, <1>2, <1>3 DEF Settled

\* A repick marks nothing.
LEMMA RepickUnmarked ==
    ASSUME NEW e, IsEngine(e), NEW s \in Strings, NEW timing
    PROVE  PlayOn(e, e.held[s].id, s, timing, FALSE).broadcast = e.broadcast
<1> DEFINE r == PlayOn(e, e.held[s].id, s, timing, FALSE)
<1>1. \E V, d : r = [[e EXCEPT !.voice = V] EXCEPT !.voice = d]
  <2>1. \E w, d : r = Revoiced(Revoiced(e, s, w), s, d)
    BY DEF PlayOn, Revoiced
  <2> HIDE DEF r
  <2> QED
    BY <2>1 DEF Revoiced
<1> HIDE DEF r
<1>2. r.broadcast = e.broadcast
  BY <1>1 DEF IsEngine
<1> QED
  BY <1>2 DEF r

\* Every step keeps the pitches apart and the account in full.
LEMMA ApartStep == Attends /\ Attends' /\ Apart /\ [Next]_vars => Apart'
<1> SUFFICES ASSUME Attends, Attends', Apart, [Next]_vars, client.solos = {}
             PROVE  /\ solo' = {}
                    /\ Settled(engine')
                    /\ due' \in [Ids -> Nat]
                    /\ \A id \in Ids : Reachable(id) =>
                          due'[id] <= engine'.outstanding[id]
  BY ClientStays DEF Apart, Reachable, OnTheNeck
<1> DEFINE Goal == /\ solo' = {}
                   /\ Settled(engine')
                   /\ due' \in [Ids -> Nat]
                   /\ \A id \in Ids : Reachable(id) =>
                         due'[id] <= engine'.outstanding[id]
<1>0. /\ client \in Clients /\ IsEngine(engine) /\ IsEngine(engine')
      /\ solo = {} /\ Settled(engine) /\ due \in [Ids -> Nat]
      /\ \A id \in Ids : Reachable(id) => due[id] <= engine.outstanding[id]
      /\ engine.outstanding \in [Ids -> Nat]
  BY DEF Attends, Kept, Apart, Settled, Owing
<1>1. ASSUME NEW id \in Played, NoteOn(id) PROVE Goal
  <2>1. id \in Ids
    BY <1>0, PlayedAreIds
  <2>2. Heeded(engine, engine', id)
    BY <1>0, <1>1, <2>1, PlayNoteSettles DEF NoteOn
  <2>3. due' = [due EXCEPT ![id] = @ + 1] /\ solo' = solo
    BY <1>1 DEF NoteOn
  <2>4. due' \in [Ids -> Nat]
    BY <1>0, <2>1, <2>3
  <2>5. ASSUME NEW j \in Ids, Reachable(j)
        PROVE  due'[j] <= engine'.outstanding[j]
    <3>1. due'[j] = due[j] + (IF j = id THEN 1 ELSE 0)
      BY <1>0, <2>1, <2>3
    <3>2. engine.outstanding[j] + (IF j = id THEN 1 ELSE 0) <= engine'.outstanding[j]
      BY <2>2, <2>5 DEF Heeded, Heard
    <3>3. /\ due[j] \in Nat /\ engine.outstanding[j] \in Nat
          /\ engine'.outstanding[j] \in Nat /\ due[j] <= engine.outstanding[j]
      BY <1>0, <2>2, <2>5 DEF Heeded, Settled, Owing
    <3> QED
      BY <3>1, <3>2, <3>3
  <2> QED
    BY <1>0, <2>2, <2>3, <2>4, <2>5 DEF Heeded
<1>2. ASSUME NEW id \in Played, NoteOff(id) PROVE Goal
  <2>1. id \in Ids
    BY <1>0, PlayedAreIds
  <2>2. /\ engine' = Lift(engine, id) /\ solo' = solo
        /\ due' = [due EXCEPT ![id] = Max({0, @ - 1})]
    BY <1>2 DEF NoteOff
  <2>3. /\ Settled(engine')
        /\ \A j \in Ids : j # id => engine'.outstanding[j] = engine.outstanding[j]
        /\ engine.outstanding[id] - 1 <= engine'.outstanding[id]
    BY <1>0, <2>1, <2>2, LiftSettles
  <2>4. due[id] \in Nat /\ due[id] - 1 \in Int
    BY <1>0, <2>1
  <2>5. Max({0, due[id] - 1}) = IF due[id] - 1 > 0 THEN due[id] - 1 ELSE 0
    BY <2>4, MaxIs
  <2>6. /\ due' \in [Ids -> Nat]
        /\ \A j \in Ids : j # id => due'[j] = due[j]
        /\ due'[id] = IF due[id] - 1 > 0 THEN due[id] - 1 ELSE 0
    BY <1>0, <2>1, <2>2, <2>4, <2>5
  <2>7. ASSUME NEW j \in Ids, Reachable(j)
        PROVE  due'[j] <= engine'.outstanding[j]
    <3>1. /\ engine.outstanding[j] \in Nat /\ engine'.outstanding[j] \in Nat
          /\ due[j] \in Nat /\ due[j] <= engine.outstanding[j]
      BY <1>0, <2>3, <2>7 DEF Settled, Owing
    <3> QED
      BY <2>3, <2>6, <3>1
  <2> QED
    BY <1>0, <2>2, <2>3, <2>6, <2>7
<1>3. ASSUME NEW ids \in SUBSET Played, NEW repeats \in SUBSET ids,
             NoteOnChord(ids, repeats)
      PROVE  Goal
  <2>1. ids \in SUBSET Ids
    BY <1>0, PlayedAreIds
  <2>2. IsFiniteSet(ids) /\ IsFiniteSet(repeats)
    BY <1>0, ChordsAreFinite
  <2>3. engine' \in PlayChord(engine, ids, repeats) /\ solo' = solo
    BY <1>3 DEF NoteOnChord
  <2>4. /\ Settled(engine')
        /\ \A j \in Ids : Reachable(j) =>
              engine.outstanding[j] + Once(ids, j) + Once(repeats, j)
                 <= engine'.outstanding[j]
    BY <1>0, <2>1, <2>2, <2>3, PlayChordSettles
  <2>5. due' = [j \in Ids |-> due[j] + Once(ids, j) + Once(repeats, j)]
    BY <1>3 DEF NoteOnChord, Once
  <2>6. \A j \in Ids : /\ Once(ids, j) \in Nat /\ Once(repeats, j) \in Nat
                       /\ due[j] \in Nat /\ engine.outstanding[j] \in Nat
                       /\ engine'.outstanding[j] \in Nat
    BY <1>0, <2>4 DEF Once, Settled, Owing
  <2>7. due' \in [Ids -> Nat]
    BY <2>5, <2>6
  <2>8. \A j \in Ids : Reachable(j) => due'[j] <= engine'.outstanding[j]
    BY <1>0, <2>4, <2>5, <2>6
  <2> QED
    BY <1>0, <2>3, <2>4, <2>7, <2>8
<1>4. ASSUME engine'.held = engine.held, engine'.outstanding = engine.outstanding,
             engine'.broadcast = engine.broadcast, due' = due, solo' = {}
      PROVE  Goal
  <2>1. Settled(engine')
    BY <1>0, <1>4, SameSettles
  <2> QED
    BY <1>0, <1>4, <2>1
<1>5. ASSUME NEW s \in Strings, RepickHeldString(s) PROVE Goal
  <2>1. PICK timing \in Timings :
           engine' = PlayOn(engine, engine.held[s].id, s, timing, FALSE)
    BY <1>5 DEF RepickHeldString
  <2>2. engine.held[s].count > 0 /\ due' = due /\ solo' = solo
    BY <1>5 DEF RepickHeldString
  <2>3. IsRepicked(engine, s, engine')
    BY <1>0, <2>1, <2>2, RepickIs
  <2>4. engine'.outstanding = engine.outstanding
    BY <1>0, <2>1, <2>2, RepickOutstanding
  <2>5. engine'.broadcast = engine.broadcast
    BY <1>0, <2>1, RepickUnmarked
  <2> HIDE DEF Goal
  <2> QED
    BY <1>0, <1>4, <2>2, <2>3, <2>4, <2>5 DEF IsRepicked
<1>6. ASSUME \/ PedalUp \/ Recover
             \/ \E s \in Strings : Retire(s)
             \/ \E s \in Strings, again \in BOOLEAN : Contact(s, again)
      PROVE  Goal
  <2>1. (\E V : engine' = [engine EXCEPT !.voice = V]) /\ due' = due /\ solo' = solo
    <3>1. CASE PedalUp \/ Recover
      BY <3>1 DEF PedalUp, Recover
    <3>2. ASSUME NEW s \in Strings, NEW again \in BOOLEAN,
                 Retire(s) \/ Contact(s, again)
          PROVE  /\ \E V : engine' = [engine EXCEPT !.voice = V]
                 /\ due' = due /\ solo' = solo
      BY <3>2 DEF Retire, Contact
    <3> QED
      BY <1>6, <3>1, <3>2
  <2>2. /\ engine'.held = engine.held /\ engine'.outstanding = engine.outstanding
        /\ engine'.broadcast = engine.broadcast
    BY <1>0, <2>1 DEF IsEngine
  <2>3. due' = due /\ solo' = {}
    BY <1>0, <2>1
  <2> HIDE DEF Goal
  <2> QED
    BY <1>4, <2>2, <2>3
<1>7. ASSUME \/ PedalDown \/ UNCHANGED vars
             \/ \E p \in PlayStyles : SelectPlayStyle(p)
             \/ \E ss \in SUBSET client.solos : SelectSolo(ss)
      PROVE  Goal
  <2>1. engine' = engine /\ due' = due /\ solo' = {}
    BY <1>0, <1>7 DEF PedalDown, SelectPlayStyle, SelectSolo, vars
  <2> HIDE DEF Goal
  <2> QED
    BY <1>4, <2>1
<1>8. ASSUME AllNotesOff \/ Reset PROVE Goal
  <2>1. /\ engine'.held = Silenced.held
        /\ engine'.outstanding = Silenced.outstanding
        /\ engine'.broadcast = Silenced.broadcast
        /\ due' = [id \in Ids |-> 0] /\ solo' = {}
    <3>1. CASE AllNotesOff
      <4>1. \E V : engine' = [Silenced EXCEPT !.voice = V]
        BY <3>1 DEF AllNotesOff
      <4> QED
        BY <1>0, <3>1, <4>1, SilencedIs DEF IsEngine, AllNotesOff
    <3>2. CASE Reset
      BY <3>2 DEF Reset
    <3> QED
      BY <1>8, <3>1, <3>2
  <2>2. Settled(engine') /\ engine'.outstanding \in [Ids -> Nat]
    BY <1>0, <2>1, SilenceSettles, SameSettles DEF Settled, Owing
  <2>3. due' \in [Ids -> Nat] /\ \A id \in Ids : due'[id] = 0
    BY <2>1
  <2>4. \A id \in Ids : engine'.outstanding[id] \in Nat
    BY <2>2
  <2> QED
    BY <2>1, <2>2, <2>3, <2>4
<1> HIDE DEF Goal
<1>9. Goal
  <2>1. CASE UNCHANGED vars
    BY <1>7, <2>1
  <2>2. CASE Playing
    BY <1>1, <1>2, <1>3, <1>5, <1>6, <1>7, <1>8, <2>2 DEF Playing
  <2>3. CASE Rendering
    BY <1>6, <2>3 DEF Rendering
  <2> QED
    BY <2>1, <2>2, <2>3 DEF Next
<1> QED
  BY <1>9 DEF Goal

\* At first no pitch is anywhere, and nothing is due.
LEMMA ApartStart == Init => Apart
<1> SUFFICES ASSUME Init PROVE Apart
  OBVIOUS
<1>1. engine = Silenced /\ due = [id \in Ids |-> 0] /\ solo = {}
  BY DEF Init
<1>2. Settled(engine) /\ engine.outstanding \in [Ids -> Nat]
  BY <1>1, SilenceSettles DEF Settled, Owing
<1>3. \A id \in Ids : due[id] = 0 /\ engine.outstanding[id] \in Nat
  BY <1>1, <1>2
<1>4. due \in [Ids -> Nat] /\ \A id \in Ids : due[id] <= engine.outstanding[id]
  BY <1>1, <1>3
<1> QED
  BY <1>1, <1>2, <1>4 DEF Apart

\* Where no solo mask refuses a note, the Note Off that lifts the last finger of
\* a pitch is the last one due, for every number of strings, every tuning, every
\* chord and any number of stolen strings in between (noteOff,
\* outstandingNoteOwners).
THEOREM LastFingerLastNoteOff == Spec => LastNoteOffLifts
<1>1. ASSUME Attends, Apart, client.solos = {}, NEW id \in Played,
             Owners(engine, id) > 0, Owners(engine', id) = 0, NoteOff(id)
      PROVE  due'[id] = 0
  <2>1. id \in Ids
    BY <1>1, PlayedAreIds DEF Attends
  <2>2. /\ engine' = Lift(engine, id)
        /\ due' = [due EXCEPT ![id] = Max({0, @ - 1})]
    BY <1>1 DEF NoteOff
  <2>3. Settled(engine) /\ due \in [Ids -> Nat] /\ engine.outstanding \in [Ids -> Nat]
    BY <1>1 DEF Apart, Settled, Owing
  <2>4. engine.outstanding[id] <= 1
    BY <1>1, <2>1, <2>2, <2>3, LiftSettles
  <2>5. Reachable(id)
    <3>1. HeldBy(engine, id) # {}
      BY <1>1, FS_EmptySet DEF Owners
    <3>2. Holders(engine, id) # {}
      BY <3>1 DEF HeldBy
    <3> QED
      BY <2>1, <2>3, <3>2 DEF Settled, Alone, Reachable, Holders
  <2>6. due[id] <= engine.outstanding[id]
    BY <1>1, <2>1, <2>5 DEF Apart
  <2>7. due[id] \in Nat /\ due[id] - 1 \in Int /\ engine.outstanding[id] \in Nat
    BY <2>1, <2>3
  <2>8. Max({0, due[id] - 1}) = IF due[id] - 1 > 0 THEN due[id] - 1 ELSE 0
    BY <2>7, MaxIs
  <2> QED
    BY <2>1, <2>2, <2>3, <2>4, <2>6, <2>7, <2>8
<1> DEFINE OnlyTheLast ==
        client.solos = {} =>
            \A id \in Played :
                Owners(engine, id) > 0 /\ Owners(engine', id) = 0 /\ NoteOff(id) =>
                    due'[id] = 0
<1>2. Attends /\ Apart => OnlyTheLast
  BY <1>1
<1>3. (Spec => [][OnlyTheLast]_vars) => (Spec => LastNoteOffLifts)
  BY DEF LastNoteOffLifts
<1> HIDE DEF OnlyTheLast
<1> QED
  BY <1>2, <1>3, AttendsStart, AttendsStep, ApartStart, ApartStep, PTL DEF Spec

-----------------------------------------------------------------------------
(***************************************************************************)
(* A plain finger leaves its string only for another note there.           *)
(***************************************************************************)

\* Every finger is on its string's frets.
OnFrets(e) ==
    /\ IsEngine(e)
    /\ \A s \in Strings : e.held[s].count > 0 =>
          e.held[s].id \in Ids /\ OnTheNeck(e.held[s].id, s)

\* No member channel has two of the pitches.
OneEach(ids) == \A i, j \in ids : i.expr = j.expr => i = j \/ i.expr = Legacy

\* What a note leaves on each string.
LEMMA TakeNoteHolds ==
    ASSUME NEW e, IsEngine(e), NEW id, NEW s \in Strings, NEW timing
    PROVE  LET r == TakeNote(e, id, s, timing) IN
           /\ IsEngine(r)
           /\ r.held[s].id = id /\ r.held[s].count > 0
           /\ \A t \in Strings : t # s =>
                 r.held[t] = IF Leaves(e, id, t) THEN Free ELSE e.held[t]
<1> DEFINE r == TakeNote(e, id, s, timing)
<1>1. TakesNote(e, id, s, r)
  BY PlayOnIs
<1>2. IsOwner(e.held[s])
  BY DEF IsEngine
<1>3. /\ OneMore(e.held[s], id).id = id
      /\ OneMore(e.held[s], id).count > 0
  BY <1>2, OwnersCount
<1> HIDE DEF r
<1> QED
  BY <1>1, <1>3 DEF TakesNote, PlayedHeld, r

\* A note that its string can play is put on its frets.
LEMMA TakeNoteOnFrets ==
    ASSUME NEW e, OnFrets(e), NEW id \in Ids, NEW s \in Strings,
           OnTheNeck(id, s), NEW timing
    PROVE  OnFrets(TakeNote(e, id, s, timing))
<1> DEFINE r == TakeNote(e, id, s, timing)
<1>1. /\ IsEngine(r)
      /\ r.held[s].id = id /\ r.held[s].count > 0
      /\ \A t \in Strings : t # s =>
            r.held[t] = IF Leaves(e, id, t) THEN Free ELSE e.held[t]
  BY TakeNoteHolds DEF OnFrets
<1> HIDE DEF r
<1>2. ASSUME NEW t \in Strings, r.held[t].count > 0
      PROVE  r.held[t].id \in Ids /\ OnTheNeck(r.held[t].id, t)
  <2>1. CASE t = s
    BY <1>1, <2>1
  <2>2. CASE t # s
    <3>1. r.held[t] = Free \/ r.held[t] = e.held[t]
      BY <1>1, <2>2
    <3>2. r.held[t] = e.held[t]
      BY <1>2, <3>1 DEF Free
    <3> QED
      BY <1>2, <3>2 DEF OnFrets
  <2> QED
    BY <2>1, <2>2
<1> QED
  BY <1>1, <1>2 DEF OnFrets, r

\* The one finger of a member channel is on this string.
Sole(e, id, s) ==
    /\ id.expr # Legacy /\ e.held[s].count > 0 /\ e.held[s].id.expr = id.expr
    /\ \A t \in Strings :
          e.held[t].count > 0 /\ e.held[t].id.expr = id.expr => t = s

\* A note goes where it can be played, and to its member's finger.
LEMMA ChosenIsPlayable ==
    ASSUME NEW e, NEW id, NEW style
    PROVE  /\ \A s \in ChooseString(e, id, style) : s \in Strings /\ Playable(id, s)
           /\ \A s \in Strings : Playable(id, s) /\ Sole(e, id, s) =>
                 ChooseString(e, id, style) \subseteq {s}
<1> DEFINE playable == {s \in Strings : Playable(id, s)}
           member == {s \in playable : id.expr # Legacy /\ e.held[s].count > 0
                                       /\ e.held[s].id.expr = id.expr}
           finger == playable \cap Holders(e, id)
           memberTail == {s \in playable : id.expr # Legacy /\ Active(e.voice[s])
                                           /\ e.voice[s].id.expr = id.expr}
           same == FirstOf(SoundingSame(e, id))
           kept == {s \in same : ~PlainTail(e, id, s)}
           legato == IF style \in {"Hammer", "Slide"}
                     THEN LegatoSources(e, id, style) ELSE {}
           fresh == IF same # {} THEN same ELSE FreshString(e, id)
           other == IF legato = {} THEN fresh
                    ELSE IF style = "Hammer" THEN legato \cup fresh ELSE legato
           chosen == ChooseString(e, id, style)
<1>1. /\ member # {} => chosen = FirstOf(member)
      /\ member = {} => \/ chosen = FirstOf(finger)
                        \/ chosen = FirstOf(memberTail)
                        \/ chosen = kept
                        \/ chosen = other
  <2>1. chosen = CASE member # {} -> FirstOf(member)
                   [] member = {} /\ finger # {} -> FirstOf(finger)
                   [] member = {} /\ finger = {} /\ memberTail # {} -> FirstOf(memberTail)
                   [] member = {} /\ finger = {} /\ memberTail = {} /\ kept # {} -> kept
                   [] OTHER -> other
    BY DEF ChooseString
  <2> HIDE DEF chosen, member, finger, memberTail, kept, other
  <2> QED
    BY <2>1
<1>2. /\ member \in SUBSET playable /\ finger \in SUBSET playable
      /\ memberTail \in SUBSET playable /\ SoundingSame(e, id) \in SUBSET playable
      /\ legato \in SUBSET playable
  BY DEF SoundingSame, LegatoSources
<1>3. same \in SUBSET playable /\ kept \in SUBSET playable
  BY <1>2 DEF FirstOf
<1>4. FreshString(e, id) \in SUBSET playable
  BY DEF FreshString, LowestFret
<1>5. other \in SUBSET playable
  <2> HIDE DEF same, legato, playable
  <2> QED
    BY <1>2, <1>3, <1>4
<1>6. \A S : FirstOf(S) \subseteq S
  BY DEF FirstOf
<1>7. chosen \in SUBSET playable
  <2> HIDE DEF member, finger, memberTail, kept, other, playable, chosen, same
  <2> QED
    BY <1>1, <1>2, <1>3, <1>5, <1>6
<1>8. ASSUME NEW s \in Strings, Playable(id, s), Sole(e, id, s)
      PROVE  chosen \subseteq {s}
  <2>1. s \in member /\ member \subseteq {s}
    BY <1>8 DEF Sole
  <2> HIDE DEF member, finger, memberTail, kept, other, playable, chosen, same
  <2> QED
    BY <1>1, <1>6, <2>1
<1> HIDE DEF chosen
<1> QED
  BY <1>7, <1>8 DEF chosen

\* A note is refused or taken by a string.
LEMMA NoteIsTaken ==
    ASSUME NEW e, NEW id, NEW r \in PlayNote(e, id)
    PROVE  \/ r = e
           \/ \E s \in ChooseString(e, id, playStyle), timing \in Timings :
                 r = TakeNote(e, id, s, timing)
<1> DEFINE strings == ChooseString(e, id, playStyle)
<1>1. PlayNote(e, id) = IF strings = {} THEN {e}
                        ELSE {TakeNote(e, id, s, timing) :
                                 s \in strings, timing \in Timings}
  BY DEF PlayNote
<1> HIDE DEF strings
<1> QED
  BY <1>1 DEF strings

\* Notes that come in turn: a string the hand may use keeps a plain finger, or
\* the one finger of a member that has taken it.
InTurn(f, ids, S) ==
    /\ OnFrets(f)
    /\ \A s \in S :
          /\ f.held[s].count > 0
          /\ \/ f.held[s].id.expr = Legacy
             \/ f.held[s].id \in ids /\ Sole(f, f.held[s].id, s)

LEMMA TurnGoesOn ==
    ASSUME NEW ids \in SUBSET Ids, NEW S \in SUBSET Strings,
           \A s \in S : s \in Allowed, S # {} => OneEach(ids),
           NEW f, InTurn(f, ids, S), NEW id \in ids, NEW r \in PlayNote(f, id)
    PROVE  InTurn(r, ids, S)
<1>1. CASE r = f
  BY <1>1
<1>2. CASE r # f
  <2>1. PICK t \in ChooseString(f, id, playStyle), timing \in Timings :
           r = TakeNote(f, id, t, timing)
    BY <1>2, NoteIsTaken
  <2>2. /\ t \in Strings /\ Playable(id, t)
        /\ \A s \in Strings : Playable(id, s) /\ Sole(f, id, s) => t = s
    BY <2>1, ChosenIsPlayable
  <2>3. OnFrets(f) /\ IsEngine(f)
    BY DEF InTurn, OnFrets
  <2>4. OnFrets(r)
    BY <2>1, <2>2, <2>3, TakeNoteOnFrets DEF Playable
  <2>5. /\ r.held[t].id = id /\ r.held[t].count > 0
        /\ \A u \in Strings : u # t =>
              r.held[u] = IF Leaves(f, id, u) THEN Free ELSE f.held[u]
    BY <2>1, <2>2, <2>3, TakeNoteHolds
  <2>6. ASSUME NEW u \in Strings, u # t, r.held[u].count > 0
        PROVE  r.held[u] = f.held[u] /\ ~Leaves(f, id, u)
    BY <2>5, <2>6 DEF Free
  <2>7. ASSUME NEW s \in S
        PROVE  /\ r.held[s].count > 0
               /\ \/ r.held[s].id.expr = Legacy
                  \/ r.held[s].id \in ids /\ Sole(r, r.held[s].id, s)
    <3>1. CASE s = t
      <4>1. id.expr # Legacy => Sole(r, id, s)
        <5> SUFFICES ASSUME id.expr # Legacy, NEW u \in Strings, u # t,
                            r.held[u].count > 0
                     PROVE  r.held[u].id.expr # id.expr
          BY <2>5, <3>1 DEF Sole
        <5> QED
          BY <2>6 DEF Leaves
      <4> QED
        BY <2>5, <3>1, <4>1
    <3>2. CASE s # t
      <4>1. /\ f.held[s].count > 0
            /\ \/ f.held[s].id.expr = Legacy
               \/ f.held[s].id \in ids /\ Sole(f, f.held[s].id, s)
        BY DEF InTurn
      <4>2. ~Leaves(f, id, s)
        <5> SUFFICES ASSUME Leaves(f, id, s) PROVE FALSE
          OBVIOUS
        <5>1. f.held[s].id.expr # Legacy /\ f.held[s].id.expr = id.expr
          BY DEF Leaves
        <5>2. f.held[s].id = id
          BY <4>1, <5>1 DEF OneEach
        <5>3. Playable(id, s)
          BY <2>3, <4>1, <5>2 DEF Playable, OnFrets
        <5> QED
          BY <2>2, <3>2, <4>1, <5>1, <5>2, <5>3
      <4>3. r.held[s] = f.held[s]
        BY <2>5, <3>2, <4>2
      <4>4. ASSUME f.held[s].id.expr # Legacy
            PROVE  Sole(r, f.held[s].id, s)
        <5>1. Sole(f, f.held[s].id, s)
          BY <4>1, <4>4
        <5>2. ASSUME NEW u \in Strings, r.held[u].count > 0,
                     r.held[u].id.expr = f.held[s].id.expr
              PROVE  u = s
          <6>1. CASE u = t
            BY <2>5, <4>1, <4>2, <4>4, <5>2, <6>1 DEF Leaves
          <6>2. CASE u # t
            BY <2>6, <5>1, <5>2, <6>2 DEF Sole
          <6> QED
            BY <6>1, <6>2
        <5> QED
          BY <4>3, <5>1, <5>2 DEF Sole
      <4> QED
        BY <4>1, <4>3, <4>4
    <3> QED
      BY <3>1, <3>2
  <2> QED
    BY <2>4, <2>7 DEF InTurn
<1> QED
  BY <1>1, <1>2

\* So does a chord of more pitches than the hand has strings.
LEMMA PlaySinglyInTurn ==
    ASSUME NEW ids \in SUBSET Ids, NEW repeats, IsFiniteSet(ids),
           NEW S \in SUBSET Strings,
           \A s \in S : s \in Allowed, S # {} => OneEach(ids),
           NEW e, InTurn(e, ids, S), NEW r \in PlaySingly(e, ids, repeats)
    PROVE  InTurn(r, ids, S)
<1> DEFINE N == Len(Canonical(ids))
<1>1. N \in Nat
  BY SinglyIsWalked
<1>2. PICK played : SingleWalk(e, ids, repeats, played) /\ r \in played[N]
  BY SinglyIsWalked
<1>6. N = Cardinality(ids) /\ \A n \in 1 .. N : Canonical(ids)[n] \in ids
  <2>1. /\ Cardinality(ids) \in Nat
        /\ Canonical(ids) \in [1 .. Cardinality(ids) -> ids]
    BY CanonicalOnce
  <2>2. Canonical(ids) \in Seq(ids) /\ Len(Canonical(ids)) = Cardinality(ids)
    BY <2>1, SeqDef
  <2> QED
    BY <2>1, <2>2
<1> DEFINE G == {m \in 0 .. N : \A f \in played[m] : InTurn(f, ids, S)}
<1>3. 0 \in G
  BY <1>1, <1>2 DEF SingleWalk
<1>4. ASSUME NEW m \in 0 .. N, m < N, m \in G
      PROVE  m + 1 \in G
  <2> DEFINE id == Canonical(ids)[m + 1]
  <2>1. m + 1 \in 0 .. N /\ m + 1 \in 1 .. N /\ (m + 1) - 1 = m
    BY <1>1, <1>4
  <2>2. \/ played[m + 1] = NextNotes(NextNotes(played[m], id), id)
        \/ played[m + 1] = NextNotes(played[m], id)
    BY <1>2, <2>1 DEF SingleWalk
  <2>6. id \in ids
    BY <1>6, <2>1
  <2> HIDE DEF id
  <2>3. ASSUME NEW es, \A f \in es : InTurn(f, ids, S)
        PROVE  \A f \in NextNotes(es, id) : InTurn(f, ids, S)
    <3> SUFFICES ASSUME NEW f \in es, NEW g \in PlayNote(f, id)
                 PROVE  InTurn(g, ids, S)
      BY DEF NextNotes
    <3> QED
      BY <2>3, <2>6, TurnGoesOn
  <2>4. \A f \in played[m] : InTurn(f, ids, S)
    BY <1>4
  <2>5. \A f \in played[m + 1] : InTurn(f, ids, S)
    <3> HIDE DEF N, G
    <3> QED
      BY <2>2, <2>3, <2>4, Zenon
  <2> HIDE DEF N
  <2> QED
    BY <2>1, <2>5
<1>5. N \in G
  <2> HIDE DEF N, G
  <2> QED
    BY <1>1, <1>3, <1>4, WalkUp
<1> QED
  BY <1>2, <1>5

\* A hand that takes a chord's shape: a string of it that a plain finger held
\* is still to be struck, or keeps that finger, or the pitch the shape gave it.
InHand(f, ids, a, S, left) ==
    /\ OnFrets(f)
    /\ \A s \in S \ left :
          /\ f.held[s].count > 0
          /\ \/ f.held[s].id.expr = Legacy
             \/ f.held[s].id \in ids /\ a[f.held[s].id] = s

\* One event more of the chord.
LEMMA HandGoesOn ==
    ASSUME NEW ids \in SUBSET Ids, NEW S \in SUBSET Strings,
           S # {} => OneEach(ids), NEW a,
           NEW id \in ids, a[id] \in Strings, OnTheNeck(id, a[id]),
           NEW left, NEW rest, left \subseteq rest \cup {a[id]},
           NEW f, InHand(f, ids, a, S, left), NEW timing
    PROVE  InHand(TakeNote(f, id, a[id], timing), ids, a, S, rest)
<1> DEFINE t == a[id]
           r == TakeNote(f, id, t, timing)
<1>1. OnFrets(f) /\ IsEngine(f)
  BY DEF InHand, OnFrets
<1>2. OnFrets(r)
  BY <1>1, TakeNoteOnFrets
<1>3. /\ r.held[t].id = id /\ r.held[t].count > 0
      /\ \A u \in Strings : u # t =>
            r.held[u] = IF Leaves(f, id, u) THEN Free ELSE f.held[u]
  BY <1>1, TakeNoteHolds
<1> HIDE DEF r
<1>4. ASSUME NEW s \in S \ rest
      PROVE  /\ r.held[s].count > 0
             /\ \/ r.held[s].id.expr = Legacy
                \/ r.held[s].id \in ids /\ a[r.held[s].id] = s
  <2>1. CASE s = t
    BY <1>3, <2>1
  <2>2. CASE s # t
    <3>1. /\ f.held[s].count > 0
          /\ \/ f.held[s].id.expr = Legacy
             \/ f.held[s].id \in ids /\ a[f.held[s].id] = s
      BY <2>2 DEF InHand
    <3>2. ~Leaves(f, id, s)
      <4> SUFFICES ASSUME Leaves(f, id, s) PROVE FALSE
        OBVIOUS
      <4>1. f.held[s].id.expr # Legacy /\ f.held[s].id.expr = id.expr
        BY DEF Leaves
      <4>2. f.held[s].id = id
        BY <3>1, <4>1 DEF OneEach
      <4> QED
        BY <2>2, <3>1, <4>1, <4>2
    <3> QED
      BY <1>3, <2>2, <3>1, <3>2
  <2> QED
    BY <2>1, <2>2
<1> QED
  BY <1>2, <1>4 DEF InHand, r

\* What a shape costs: the members' and the held pitches it moves.
BoundMissed(e, ids, a) ==
    {i \in ids : ~Bound(e, i, a[i])
                 /\ \E s \in Strings : OnTheNeck(i, s) /\ Bound(e, i, s)}

HeldMissed(e, ids, a) ==
    {i \in ids : ~(e.held[a[i]].id = i)
                 /\ \E s \in Strings : OnTheNeck(i, s) /\ e.held[s].id = i}

\* The shapes of a chord that move the fewest members.
BindsMost(e, ids) ==
    {a \in Shapes(ids) : \A b \in Shapes(ids) :
        Cardinality(BoundMissed(e, ids, a)) <= Cardinality(BoundMissed(e, ids, b))}

\* The shape chosen moves, of those, the fewest held pitches.
LEMMA BestMissFewest ==
    ASSUME NEW e, NEW ids, NEW a \in BestShapes(e, ids)
    PROVE  /\ a \in BindsMost(e, ids)
           /\ \A b \in BindsMost(e, ids) :
                 Cardinality(HeldMissed(e, ids, a)) <= Cardinality(HeldMissed(e, ids, b))
<1> DEFINE fewest ==
      {c \in BindsMost(e, ids) : \A b \in BindsMost(e, ids) :
          Cardinality(HeldMissed(e, ids, c)) <= Cardinality(HeldMissed(e, ids, b))}
<1>1. BestShapes(e, ids) \subseteq fewest
  BY DEF BestShapes, Cheapest, Misses, BindsMost, BoundMissed, HeldMissed
<1> QED
  BY <1>1

\* A plain finger that holds its pitch alone stays, unless the shape gives its
\* string to another pitch.
LEMMA ShapeKeepsFinger ==
    ASSUME NEW e, OnFrets(e), solo \subseteq Strings, NEW ids \in SUBSET Ids, IsFiniteSet(ids),
           NEW a \in BestShapes(e, ids), NEW s \in Strings, s \in Allowed,
           e.held[s].count > 0, e.held[s].id \in ids,
           e.held[s].id.expr = Legacy, Holders(e, e.held[s].id) = {s}
    PROVE  \E i \in ids : a[i] = s
<1> SUFFICES ASSUME \A i \in ids : a[i] # s PROVE FALSE
  OBVIOUS
<1> DEFINE h == e.held[s].id
           b == [a EXCEPT ![h] = s]
<1>1. /\ a \in [ids -> Allowed]
      /\ \A i \in ids : OnTheNeck(i, a[i])
      /\ \A i, j \in ids : a[i] = a[j] => i = j
  BY BestMissFewest DEF BindsMost, Shapes
<1>2. OnTheNeck(h, s)
  BY DEF OnFrets
<1>3. h \in ids /\ h.expr = Legacy /\ Holders(e, h) = {s} /\ a[h] # s
  OBVIOUS
<1> HIDE DEF h
<1>4. /\ b \in [ids -> Allowed] /\ b[h] = s
      /\ \A i \in ids : i # h => b[i] = a[i]
  BY <1>1, <1>3
<1> HIDE DEF b
<1>5. b \in Shapes(ids)
  <2>1. \A i \in ids : OnTheNeck(i, b[i])
    BY <1>1, <1>2, <1>4
  <2>2. \A i, j \in ids : b[i] = b[j] => i = j
    BY <1>1, <1>4
  <2> QED
    BY <1>4, <2>1, <2>2 DEF Shapes
<1>6. BoundMissed(e, ids, b) = BoundMissed(e, ids, a)
  <2>1. \A t : ~Bound(e, h, t)
    BY <1>3 DEF Bound
  <2>2. ASSUME NEW i \in ids
        PROVE  i \in BoundMissed(e, ids, b) <=> i \in BoundMissed(e, ids, a)
    <3>1. CASE i = h
      BY <2>1, <3>1 DEF BoundMissed
    <3>2. CASE i # h
      BY <1>4, <3>2 DEF BoundMissed
    <3> QED
      BY <3>1, <3>2
  <2> QED
    BY <2>2 DEF BoundMissed
<1>7. b \in BindsMost(e, ids)
  BY <1>5, <1>6, BestMissFewest DEF BindsMost
<1>8. a[h] \in Strings
  <2>1. a[h] \in Allowed
    BY <1>1, <1>3
  <2> QED
    BY <2>1 DEF Allowed
<1>9. h \in HeldMissed(e, ids, a)
  <2>1. e.held[s].id = h /\ OnTheNeck(h, s)
    BY <1>2 DEF h
  <2>2. e.held[a[h]].id # h
    BY <1>3, <1>8 DEF Holders
  <2> QED
    BY <1>3, <2>1, <2>2 DEF HeldMissed
<1>10. HeldMissed(e, ids, b) = HeldMissed(e, ids, a) \ {h}
  <2>1. h \notin HeldMissed(e, ids, b)
    <3>1. e.held[b[h]].id = h
      BY <1>4 DEF h
    <3> QED
      BY <3>1 DEF HeldMissed
  <2>2. ASSUME NEW i \in ids, i # h
        PROVE  i \in HeldMissed(e, ids, b) <=> i \in HeldMissed(e, ids, a)
    BY <1>4, <2>2 DEF HeldMissed
  <2> QED
    BY <2>1, <2>2 DEF HeldMissed
<1>11. IsFiniteSet(HeldMissed(e, ids, a))
  <2>1. HeldMissed(e, ids, a) \subseteq ids
    BY DEF HeldMissed
  <2> QED
    BY <2>1, FS_Subset
<1>12. /\ Cardinality(HeldMissed(e, ids, a)) \in Nat
       /\ Cardinality(HeldMissed(e, ids, b)) = Cardinality(HeldMissed(e, ids, a)) - 1
  BY <1>9, <1>10, <1>11, FS_RemoveElement, FS_CardinalityType
<1>13. Cardinality(HeldMissed(e, ids, a)) <= Cardinality(HeldMissed(e, ids, b))
  BY <1>7, BestMissFewest
<1> QED
  BY <1>12, <1>13

\* What the hand's change of shape leaves on a string: a pitch of the chord, what
\* was there, or nothing if another pitch comes or its own goes elsewhere.
LEMMA RefingeredOwner ==
    ASSUME NEW e, IsEngine(e), NEW ids, NEW a, NEW s \in Strings
    PROVE  LET r == Refingered(e, ids, a) IN
           \/ r.held[s].id \in ids /\ a[r.held[s].id] = s
           \/ r.held[s] = e.held[s]
           \/ /\ r.held[s] = Free
              /\ \/ \E i \in ids : a[i] = s
                 \/ \E i \in ids : /\ a[i] # s /\ e.held[s].count > 0
                                   /\ \/ e.held[s].id = i
                                      \/ /\ i.expr # Legacy
                                         /\ e.held[s].id.expr = i.expr
<1> DEFINE r == Refingered(e, ids, a)
           sources(i) == Holders(e, i) \ {a[i]}
           arriving(t) == {i \in ids : a[i] = t /\ sources(i) # {}}
           leaves(t, i) == /\ a[i] # t
                           /\ e.held[t].count > 0
                           /\ \/ e.held[t].id = i
                              \/ i.expr # Legacy /\ e.held[t].id.expr = i.expr
           taken(t) == \E i \in ids : a[i] = t /\ e.held[t].id # i
           first(t) == CHOOSE i \in arriving(t) : TRUE
           owners(t) ==
               IF arriving(t) # {}
               THEN [id |-> first(t), count |-> e.held[Min(sources(first(t)))].count]
               ELSE IF taken(t) \/ \E i \in ids : leaves(t, i) THEN Free
               ELSE e.held[t]
           H == [t \in Strings |-> owners(t)]
<1>1. r = [e EXCEPT !.held = H]
  BY DEF Refingered
<1> HIDE DEF r
<1>2. r.held = H
  BY <1>1 DEF IsEngine
<1>3. r.held[s] = owners(s)
  BY <1>2
<1>4. arriving(s) # {} => first(s) \in ids /\ a[first(s)] = s
  OBVIOUS
<1>5. CASE arriving(s) # {}
  <2>1. r.held[s].id = first(s)
    <3> HIDE DEF H, first, arriving, taken, leaves
    <3> QED
      BY <1>3, <1>5
  <2> QED
    BY <1>4, <1>5, <2>1 DEF r
<1>6. CASE arriving(s) = {} /\ (taken(s) \/ \E i \in ids : leaves(s, i))
  <2>1. r.held[s] = Free
    <3> HIDE DEF H, first, arriving, taken, leaves
    <3> QED
      BY <1>3, <1>6
  <2> QED
    BY <1>6, <2>1 DEF r
<1>7. CASE arriving(s) = {} /\ ~(taken(s) \/ \E i \in ids : leaves(s, i))
  <2>1. r.held[s] = e.held[s]
    <3> HIDE DEF H, first, arriving, taken, leaves
    <3> QED
      BY <1>3, <1>7
  <2> QED
    BY <2>1 DEF r
<1> QED
  BY <1>5, <1>6, <1>7

\* The hand's change of shape leaves each of its strings to be struck, or with
\* the finger that was there.
LEMMA RefingeredInHand ==
    ASSUME NEW e, OnFrets(e), solo \subseteq Strings,
           NEW ids \in SUBSET Ids, IsFiniteSet(ids),
           NEW a \in BestShapes(e, ids), NEW S \in SUBSET Strings,
           \A s \in S : /\ s \in Allowed /\ e.held[s].count > 0
                        /\ e.held[s].id.expr = Legacy
                        /\ Holders(e, e.held[s].id) = {s}
    PROVE  InHand(Refingered(e, ids, a), ids, a, S, {a[i] : i \in ids})
<1> DEFINE r == Refingered(e, ids, a)
<1>0. IsEngine(e) /\ \A i \in ids : OnTheNeck(i, a[i])
  BY BestMissFewest DEF OnFrets, BindsMost, Shapes
<1>1. IsEngine(r)
  BY <1>0, RefingeredIs
<1>2. ASSUME NEW s \in Strings
      PROVE  \/ r.held[s].id \in ids /\ a[r.held[s].id] = s
             \/ r.held[s] = e.held[s]
             \/ /\ r.held[s] = Free
                /\ \/ \E i \in ids : a[i] = s
                   \/ \E i \in ids : /\ a[i] # s /\ e.held[s].count > 0
                                     /\ \/ e.held[s].id = i
                                        \/ /\ i.expr # Legacy
                                           /\ e.held[s].id.expr = i.expr
  BY <1>0, RefingeredOwner
<1> HIDE DEF r
<1>3. OnFrets(r)
  <2> SUFFICES ASSUME NEW s \in Strings, r.held[s].count > 0
               PROVE  r.held[s].id \in Ids /\ OnTheNeck(r.held[s].id, s)
    BY <1>1 DEF OnFrets
  <2>1. r.held[s] # Free
    BY DEF Free
  <2>2. CASE r.held[s].id \in ids /\ a[r.held[s].id] = s
    BY <1>0, <2>2
  <2>3. CASE r.held[s] = e.held[s]
    BY <2>3 DEF OnFrets
  <2> QED
    BY <1>2, <2>1, <2>2, <2>3
<1>4. ASSUME NEW s \in S, \A i \in ids : a[i] # s
      PROVE  r.held[s] = e.held[s]
  <2>1. /\ s \in Strings /\ s \in Allowed /\ e.held[s].count > 0
        /\ e.held[s].id.expr = Legacy /\ Holders(e, e.held[s].id) = {s}
    OBVIOUS
  <2>2. e.held[s].id \notin ids
    BY <1>4, <2>1, ShapeKeepsFinger
  <2> QED
    BY <1>2, <1>4, <2>1, <2>2
<1> QED
  BY <1>3, <1>4 DEF InHand, r

\* The pitches of a chord come in their order, then the repeats.
LEMMA EventsInOrder ==
    ASSUME NEW ids \in SUBSET Ids, NEW repeats \in SUBSET ids,
           IsFiniteSet(ids), IsFiniteSet(repeats)
    PROVE  LET events == ShapeEvents(ids, repeats)
           IN  /\ Len(events) \in Nat /\ Cardinality(ids) \in Nat
               /\ Cardinality(ids) <= Len(events)
               /\ \A n \in 1 .. Len(events) : events[n] \in ids
               /\ \A i \in ids : \E n \in 1 .. Cardinality(ids) : events[n] = i
<1> DEFINE events == ShapeEvents(ids, repeats)
           C == Canonical(ids)
           D == Canonical(repeats)
           k == Cardinality(ids)
           l == Cardinality(repeats)
<1>0. repeats \in SUBSET Ids
  OBVIOUS
<1>1. k \in Nat /\ C \in [1 .. k -> ids]
  BY CanonicalOnce
<1>2. l \in Nat /\ D \in [1 .. l -> repeats]
  BY <1>0, CanonicalOnce
<1>3. \A i \in ids : \E n \in 1 .. k : C[n] = i
  BY CanonicalReaches
<1>4. events = C \o D
  BY DEF ShapeEvents
<1> HIDE DEF C, D, k, l, events
<1>5. C \in Seq(ids) /\ Len(C) = k
  BY <1>1, SeqDef
<1>6. D \in Seq(repeats) /\ Len(D) = l
  BY <1>2, SeqDef
<1>7. D \in Seq(ids)
  BY <1>6, SeqMonotonic
<1>8. /\ events \in Seq(ids) /\ Len(events) = k + l
      /\ \A n \in 1 .. k + l : events[n] = IF n <= k THEN C[n] ELSE D[n - k]
  BY <1>4, <1>5, <1>6, <1>7, ConcatProperties
<1>9. \A n \in 1 .. k : events[n] = C[n]
  BY <1>1, <1>2, <1>8
<1>10. \A n \in 1 .. Len(events) : events[n] \in ids
  BY <1>8
<1>11. Len(events) \in Nat /\ k <= Len(events)
  BY <1>1, <1>2, <1>8
<1> QED
  BY <1>1, <1>3, <1>9, <1>10, <1>11 DEF events, k

\* What a chord's shape has still to strike after some of its events.
StillToCome(events, k, a, m) == {a[events[n]] : n \in {n \in 1 .. k : n > m}}

LEMMA PlayShapeInHand ==
    ASSUME NEW e, OnFrets(e), solo \subseteq Strings,
           NEW ids \in SUBSET Ids, IsFiniteSet(ids),
           NEW repeats \in SUBSET ids, IsFiniteSet(repeats),
           NEW a \in BestShapes(e, ids), NEW S \in SUBSET Strings,
           S # {} => OneEach(ids),
           \A s \in S : /\ s \in Allowed /\ e.held[s].count > 0
                        /\ e.held[s].id.expr = Legacy
                        /\ Holders(e, e.held[s].id) = {s},
           NEW r \in PlayShape(e, ids, repeats, a)
    PROVE  InHand(r, ids, a, S, {})
<1> DEFINE events == ShapeEvents(ids, repeats)
           N == Len(events)
           k == Cardinality(ids)
           left(m) == StillToCome(events, k, a, m)
<1>1. /\ N \in Nat /\ k \in Nat /\ k <= N
      /\ \A n \in 1 .. N : events[n] \in ids
      /\ \A i \in ids : \E n \in 1 .. k : events[n] = i
  BY EventsInOrder
<1>2. PICK struck : ShapeWalk(e, ids, repeats, a, struck) /\ r \in struck[N]
  BY ShapeIsWalked
<1>3. \A i \in ids : a[i] \in Strings /\ OnTheNeck(i, a[i])
  <2>1. /\ a \in [ids -> Allowed]
        /\ \A i \in ids : OnTheNeck(i, a[i])
    BY BestMissFewest DEF BindsMost, Shapes
  <2>2. Allowed \subseteq Strings
    BY DEF Allowed
  <2> QED
    BY <2>1, <2>2
<1> DEFINE G == {m \in 0 .. N : \A f \in struck[m] : InHand(f, ids, a, S, left(m))}
<1>4. 0 \in G
  <2>1. struck[0] = {Refingered(e, ids, a)}
    BY <1>2 DEF ShapeWalk
  <2>2. InHand(Refingered(e, ids, a), ids, a, S, {a[i] : i \in ids})
    BY RefingeredInHand
  <2>3. {a[i] : i \in ids} \subseteq left(0)
    <3> SUFFICES ASSUME NEW i \in ids PROVE a[i] \in left(0)
      OBVIOUS
    <3>1. PICK n \in 1 .. k : events[n] = i
      BY <1>1
    <3>2. n > 0
      BY <1>1
    <3> HIDE DEF events
    <3> QED
      BY <3>1, <3>2 DEF StillToCome
  <2> HIDE DEF left
  <2>4. InHand(Refingered(e, ids, a), ids, a, S, left(0))
    BY <2>2, <2>3 DEF InHand
  <2>5. 0 \in 0 .. N
    BY <1>1
  <2> HIDE DEF N
  <2> QED
    BY <2>1, <2>4, <2>5
<1>5. ASSUME NEW m \in 0 .. N, m < N, m \in G
      PROVE  m + 1 \in G
  <2> DEFINE id == events[m + 1]
  <2>1. m + 1 \in 0 .. N /\ m + 1 \in 1 .. N /\ (m + 1) - 1 = m
    BY <1>1, <1>5
  <2>2. struck[m + 1] = StruckNotes(struck[m], id, a[id])
    BY <1>2, <2>1 DEF ShapeWalk
  <2>3. id \in ids
    BY <1>1, <2>1
  <2>4. left(m) \subseteq left(m + 1) \cup {a[id]}
    <3> SUFFICES ASSUME NEW n \in 1 .. k, n > m, n # m + 1
                 PROVE  n > m + 1
      BY DEF StillToCome
    <3> QED
      BY <1>1, <2>1
  <2> HIDE DEF id, left
  <2>5. ASSUME NEW f \in struck[m + 1]
        PROVE  InHand(f, ids, a, S, left(m + 1))
    <3>1. PICK g \in struck[m], timing \in Timings :
             f = TakeNote(g, id, a[id], timing)
      BY <2>2 DEF StruckNotes
    <3>2. InHand(g, ids, a, S, left(m))
      BY <1>5, <3>1
    <3>3. a[id] \in Strings /\ OnTheNeck(id, a[id])
      BY <1>3, <2>3
    <3> HIDE DEF N, G
    <3>4. InHand(TakeNote(g, id, a[id], timing), ids, a, S, left(m + 1))
      BY <2>3, <2>4, <3>2, <3>3, HandGoesOn
    <3> QED
      BY <3>1, <3>4
  <2> HIDE DEF N
  <2> QED
    BY <2>1, <2>5
<1>6. N \in G
  <2> HIDE DEF N, G
  <2> QED
    BY <1>1, <1>4, <1>5, WalkUp
<1>7. left(N) = {}
  <2>1. \A n \in 1 .. k : ~(n > N)
    BY <1>1
  <2> HIDE DEF N
  <2> QED
    BY <2>1 DEF StillToCome
<1> HIDE DEF left
<1> QED
  BY <1>2, <1>6, <1>7

\* A chord keeps every finger on its frets, and every string that a plain finger
\* held has one.
LEMMA PlayChordStays ==
    ASSUME NEW e, OnFrets(e), solo \subseteq Strings,
           NEW ids \in SUBSET Ids, IsFiniteSet(ids),
           NEW repeats \in SUBSET ids, IsFiniteSet(repeats),
           NEW S \in SUBSET Strings, S # {} => OneEach(ids),
           \A s \in S : /\ s \in Allowed /\ e.held[s].count > 0
                        /\ e.held[s].id.expr = Legacy
                        /\ Holders(e, e.held[s].id) = {s},
           NEW r \in PlayChord(e, ids, repeats)
    PROVE  OnFrets(r) /\ \A s \in S : r.held[s].count > 0
<1>1. CASE Shapes(ids) = {}
  <2>1. r \in PlaySingly(e, ids, repeats)
    BY <1>1 DEF PlayChord
  <2>2. InTurn(e, ids, S)
    BY DEF InTurn
  <2>3. InTurn(r, ids, S)
    BY <2>1, <2>2, PlaySinglyInTurn
  <2> QED
    BY <2>3 DEF InTurn
<1>2. CASE Shapes(ids) # {}
  <2>1. PICK a \in BestShapes(e, ids) : r \in PlayShape(e, ids, repeats, a)
    BY <1>2 DEF PlayChord
  <2>2. InHand(r, ids, a, S, {})
    BY <2>1, PlayShapeInHand
  <2> QED
    BY <2>2 DEF InHand
<1> QED
  BY <1>1, <1>2

\* A Note Off leaves the other fingers on their frets.
LEMMA LiftOnFrets ==
    ASSUME NEW e, OnFrets(e), NEW id
    PROVE  OnFrets(Lift(e, id))
<1> DEFINE f == LiftFingers(e, id)
           r == Lift(e, id)
<1>1. IsEngine(r) /\ (r.held = e.held \/ r.held = f.held)
  BY LiftIs DEF OnFrets
<1>2. \A s \in Strings : f.held[s] = e.held[s] \/ f.held[s] = OneLess(e.held[s])
  BY LiftFingersIs DEF OnFrets
<1> HIDE DEF f, r
<1>3. ASSUME NEW s \in Strings, r.held[s].count > 0
      PROVE  r.held[s].id \in Ids /\ OnTheNeck(r.held[s].id, s)
  <2>1. CASE r.held[s] = e.held[s]
    BY <1>3, <2>1 DEF OnFrets
  <2>2. CASE r.held[s] = OneLess(e.held[s])
    <3>1. IsOwner(e.held[s])
      BY DEF OnFrets, IsEngine
    <3>2. e.held[s].count > 1 /\ r.held[s].id = e.held[s].id
      BY <1>3, <2>2, <3>1, OwnersCount DEF Free
    <3>3. e.held[s].count > 0
      BY <3>1, <3>2 DEF IsOwner
    <3> QED
      BY <3>2, <3>3 DEF OnFrets
  <2> QED
    BY <1>1, <1>2, <2>1, <2>2
<1> QED
  BY <1>1, <1>3 DEF OnFrets, r

\* Fingers stay on their frets, and the hand uses the neck's strings.
FretInv == OnFrets(engine) /\ solo \subseteq Strings

LEMMA FretStep == Attends /\ Attends' /\ FretInv /\ [Next]_vars => FretInv'
<1> SUFFICES ASSUME Attends, Attends', FretInv, [Next]_vars
             PROVE  OnFrets(engine') /\ solo' \subseteq Strings
  BY DEF FretInv, OnFrets, OnTheNeck
<1> DEFINE Goal == OnFrets(engine') /\ solo' \subseteq Strings
<1>0. /\ client \in Clients /\ IsEngine(engine) /\ IsEngine(engine')
      /\ OnFrets(engine) /\ solo \subseteq Strings
  BY DEF Attends, Kept, FretInv
<1>1. ASSUME NEW id \in Played, NoteOn(id) PROVE Goal
  <2>1. {id} \in SUBSET Ids /\ engine' \in PlayNote(engine, id) /\ solo' = solo
    BY <1>0, <1>1, PlayedAreIds DEF NoteOn
  <2>2. InTurn(engine, {id}, {})
    BY <1>0 DEF InTurn
  <2>3. InTurn(engine', {id}, {})
    BY <2>1, <2>2, TurnGoesOn
  <2> QED
    BY <1>0, <2>1, <2>3 DEF InTurn
<1>2. ASSUME NEW id \in Played, NoteOff(id) PROVE Goal
  BY <1>0, <1>2, LiftOnFrets DEF NoteOff
<1>3. ASSUME NEW ids \in SUBSET Played, NEW repeats \in SUBSET ids,
             NoteOnChord(ids, repeats)
      PROVE  Goal
  <2>1. ids \in SUBSET Ids
    BY <1>0, PlayedAreIds
  <2>2. IsFiniteSet(ids) /\ IsFiniteSet(repeats)
    BY <1>0, ChordsAreFinite
  <2>3. engine' \in PlayChord(engine, ids, repeats) /\ solo' = solo
    BY <1>3 DEF NoteOnChord
  <2> DEFINE none == {}
  <2>4. none \in SUBSET Strings /\ none = {}
    OBVIOUS
  <2> HIDE DEF none
  <2>5. \A s \in none : FALSE
    BY <2>4
  <2>6. OnFrets(engine')
    BY <1>0, <2>1, <2>2, <2>3, <2>4, <2>5, PlayChordStays
  <2> QED
    BY <1>0, <2>3, <2>6
<1>4. ASSUME engine'.held = engine.held, solo' \subseteq Strings
      PROVE  Goal
  BY <1>0, <1>4 DEF OnFrets
<1>5. ASSUME NEW s \in Strings, RepickHeldString(s) PROVE Goal
  <2>1. PICK timing \in Timings :
           engine' = PlayOn(engine, engine.held[s].id, s, timing, FALSE)
    BY <1>5 DEF RepickHeldString
  <2>2. engine.held[s].count > 0 /\ solo' = solo
    BY <1>5 DEF RepickHeldString
  <2>3. IsRepicked(engine, s, engine')
    BY <1>0, <2>1, <2>2, RepickIs
  <2> QED
    BY <1>0, <1>4, <2>2, <2>3 DEF IsRepicked
<1>6. ASSUME \/ PedalUp \/ Recover
             \/ \E s \in Strings : Retire(s)
             \/ \E s \in Strings, again \in BOOLEAN : Contact(s, again)
      PROVE  Goal
  <2>1. (\E V : engine' = [engine EXCEPT !.voice = V]) /\ solo' = solo
    <3>1. ASSUME PedalUp \/ Recover
          PROVE  (\E V : engine' = [engine EXCEPT !.voice = V]) /\ solo' = solo
      BY <3>1 DEF PedalUp, Recover
    <3>2. ASSUME NEW s \in Strings, NEW again \in BOOLEAN,
                 Retire(s) \/ Contact(s, again)
          PROVE  (\E V : engine' = [engine EXCEPT !.voice = V]) /\ solo' = solo
      BY <3>2 DEF Retire, Contact
    <3> QED
      BY <1>6, <3>1, <3>2
  <2>2. engine'.held = engine.held
    BY <1>0, <2>1 DEF IsEngine
  <2> QED
    BY <1>0, <1>4, <2>1, <2>2
<1>7. ASSUME \/ PedalDown \/ UNCHANGED vars
             \/ \E p \in PlayStyles : SelectPlayStyle(p)
      PROVE  Goal
  <2>1. engine' = engine /\ solo' = solo
    BY <1>7 DEF PedalDown, SelectPlayStyle, vars
  <2> QED
    BY <1>0, <1>4, <2>1
<1>8. ASSUME NEW ss \in SUBSET client.solos, SelectSolo(ss) PROVE Goal
  <2>1. engine' = engine /\ solo' = ss
    BY <1>8 DEF SelectSolo
  <2>2. client.solos \in SUBSET Strings
    BY <1>0, NeckAssumption DEF Client
  <2> QED
    BY <1>4, <2>1, <2>2
<1>9. ASSUME AllNotesOff \/ Reset PROVE Goal
  <2>1. engine'.held = Silenced.held /\ solo' \subseteq Strings
    <3>1. ASSUME AllNotesOff
          PROVE  engine'.held = Silenced.held /\ solo' \subseteq Strings
      <4>1. \E V : engine' = [Silenced EXCEPT !.voice = V]
        BY <3>1 DEF AllNotesOff
      <4> QED
        BY <1>0, <3>1, <4>1, SilencedIs DEF IsEngine, AllNotesOff
    <3>2. ASSUME Reset
          PROVE  engine'.held = Silenced.held /\ solo' \subseteq Strings
      BY <1>0, <3>2 DEF Reset
    <3> QED
      BY <1>9, <3>1, <3>2
  <2>2. \A s \in Strings : ~(engine'.held[s].count > 0)
    BY <2>1, SilencedIs DEF Free
  <2> QED
    BY <1>0, <2>1, <2>2 DEF OnFrets
<1> HIDE DEF Goal
<1>10. Goal
  <2>1. CASE UNCHANGED vars
    BY <1>7, <2>1
  <2>2. CASE Playing
    BY <1>1, <1>2, <1>3, <1>5, <1>6, <1>7, <1>8, <1>9, <2>2 DEF Playing
  <2>3. CASE Rendering
    BY <1>6, <2>3 DEF Rendering
  <2> QED
    BY <2>1, <2>2, <2>3 DEF Next
<1> QED
  BY <1>10 DEF Goal

LEMMA FretStart == Init => FretInv
<1>1. \A s \in Strings : ~(Silenced.held[s].count > 0)
  BY SilencedIs DEF Free
<1> QED
  BY <1>1, SilencedIs DEF Init, FretInv, OnFrets

\* What is struck raises what is due; nothing else does.
LEMMA OnlyNotesAreDue ==
    ASSUME Attends, HeldInv, [Next]_vars, JustStruck # {}
    PROVE  \/ \E id \in Played : NoteOn(id)
           \/ \E ids \in SUBSET Played : \E repeats \in SUBSET ids :
                 NoteOnChord(ids, repeats) /\ ids \subseteq JustStruck
<1>0. client \in Clients /\ due \in [Ids -> Nat] /\ \A id \in Ids : due[id] \in Nat
  BY DEF Attends, HeldInv
<1>1. PICK x \in Ids : due'[x] > due[x]
  BY DEF JustStruck
<1>2. ASSUME due' = due PROVE FALSE
  BY <1>0, <1>1, <1>2
<1>3. ASSUME NEW id \in Played, NoteOff(id) PROVE FALSE
  <2>1. due' = [due EXCEPT ![id] = Max({0, @ - 1})]
    BY <1>3 DEF NoteOff
  <2>2. x = id /\ due'[x] = Max({0, due[x] - 1})
    BY <1>0, <1>1, <2>1
  <2>3. Max({0, due[x] - 1}) = IF due[x] - 1 > 0 THEN due[x] - 1 ELSE 0
    BY <1>0, MaxIs
  <2> QED
    BY <1>0, <1>1, <2>2, <2>3
<1>4. ASSUME AllNotesOff \/ Reset PROVE FALSE
  <2>1. due' = [id \in Ids |-> 0]
    BY <1>4 DEF AllNotesOff, Reset
  <2> QED
    BY <1>0, <1>1, <2>1
<1>5. ASSUME NEW ids \in SUBSET Played, NEW repeats \in SUBSET ids,
             NoteOnChord(ids, repeats)
      PROVE  ids \subseteq JustStruck
  <2>1. due' = [j \in Ids |-> due[j] + Once(ids, j) + Once(repeats, j)]
    BY <1>5 DEF NoteOnChord, Once
  <2> SUFFICES ASSUME NEW i \in ids PROVE i \in Ids /\ due'[i] > due[i]
    BY DEF JustStruck
  <2>2. i \in Ids
    BY <1>0, PlayedAreIds
  <2>3. due'[i] = due[i] + Once(ids, i) + Once(repeats, i)
    BY <2>1, <2>2
  <2>4. Once(ids, i) = 1 /\ Once(repeats, i) \in Nat
    BY DEF Once
  <2> QED
    BY <1>0, <2>2, <2>3, <2>4
<1>6. ASSUME \/ \E s \in Strings : RepickHeldString(s)
             \/ PedalUp \/ PedalDown \/ Recover
             \/ \E p \in PlayStyles : SelectPlayStyle(p)
             \/ \E ss \in SUBSET client.solos : SelectSolo(ss)
             \/ \E s \in Strings : Retire(s)
             \/ \E s \in Strings, again \in BOOLEAN : Contact(s, again)
             \/ UNCHANGED vars
      PROVE  FALSE
  <2>1. due' = due
    BY <1>6 DEF RepickHeldString, PedalUp, PedalDown, Recover, SelectPlayStyle,
                SelectSolo, Retire, Contact, vars
  <2> QED
    BY <1>2, <2>1
<1>7. CASE UNCHANGED vars
  BY <1>6, <1>7
<1>8. CASE Playing
  BY <1>3, <1>4, <1>5, <1>6, <1>8 DEF Playing
<1>9. CASE Rendering
  BY <1>6, <1>9 DEF Rendering
<1> QED
  BY <1>7, <1>8, <1>9 DEF Next

\* A plain finger leaves a string the hand may use only for another note there,
\* for every neck, every solo mask, every chord and every hand shape the score of
\* noteOnChord leaves open: the shape it chooses moves a held pitch only if it
\* gives the string to another.
THEOREM PlainFingersStay == Spec => FingerMovesOnlyWhenNeeded
<1> DEFINE Stays == \A s \in Allowed : PlainFinger(s) => engine'.held[s].count > 0
           OnlyIfNeeded ==
              (/\ JustStruck # {}
               /\ \A i, j \in JustStruck :
                     i.expr = j.expr => i = j \/ i.expr = Legacy)
              => \A s \in Allowed : PlainFinger(s) => engine'.held[s].count > 0
<1>1. ASSUME Attends, HeldInv, FretInv, [Next]_vars, JustStruck # {},
             \A i, j \in JustStruck : i.expr = j.expr => i = j \/ i.expr = Legacy
      PROVE  Stays
  <2> DEFINE S == {s \in Allowed : PlainFinger(s)}
  <2>0. OnFrets(engine) /\ solo \subseteq Strings /\ client \in Clients
    BY <1>1 DEF FretInv, Attends
  <2>1. S \in SUBSET Strings
    BY <2>0 DEF Allowed
  <2>2. \A s \in S : /\ s \in Allowed /\ engine.held[s].count > 0
                     /\ engine.held[s].id.expr = Legacy
                     /\ Holders(engine, engine.held[s].id) = {s}
    BY DEF PlainFinger
  <2> SUFFICES \A s \in S : engine'.held[s].count > 0
    OBVIOUS
  <2> HIDE DEF S
  <2>3. ASSUME NEW id \in Played, NoteOn(id)
        PROVE  \A s \in S : engine'.held[s].count > 0
    <3>1. {id} \in SUBSET Ids /\ engine' \in PlayNote(engine, id)
      BY <2>0, <2>3, PlayedAreIds DEF NoteOn
    <3>2. InTurn(engine, {id}, S)
      BY <2>0, <2>2 DEF InTurn
    <3>3. OneEach({id})
      BY DEF OneEach
    <3>4. InTurn(engine', {id}, S)
      BY <2>1, <2>2, <3>1, <3>2, <3>3, TurnGoesOn
    <3> QED
      BY <3>4 DEF InTurn
  <2>4. ASSUME NEW ids \in SUBSET Played, NEW repeats \in SUBSET ids,
               NoteOnChord(ids, repeats), ids \subseteq JustStruck
        PROVE  \A s \in S : engine'.held[s].count > 0
    <3>1. ids \in SUBSET Ids
      BY <2>0, PlayedAreIds
    <3>2. IsFiniteSet(ids) /\ IsFiniteSet(repeats)
      BY <2>0, ChordsAreFinite
    <3>3. engine' \in PlayChord(engine, ids, repeats)
      BY <2>4 DEF NoteOnChord
    <3>4. OneEach(ids)
      BY <1>1, <2>4 DEF OneEach
    <3> QED
      BY <2>0, <2>1, <2>2, <3>1, <3>2, <3>3, <3>4, PlayChordStays
  <2> QED
    BY <1>1, <2>3, <2>4, OnlyNotesAreDue
<1>2. Attends /\ HeldInv /\ FretInv /\ [Next]_vars => OnlyIfNeeded
  BY <1>1
<1>3. (Spec => [][OnlyIfNeeded]_vars) => (Spec => FingerMovesOnlyWhenNeeded)
  BY DEF FingerMovesOnlyWhenNeeded
<1> HIDE DEF OnlyIfNeeded
<1> QED
  BY <1>2, <1>3, AttendsStart, AttendsStep, HeldStart, HeldStep, FretStart, FretStep,
     PTL DEF Spec

-----------------------------------------------------------------------------
(***************************************************************************)
(* A hand of plain notes without solo masks: chords keep fingers and       *)
(* voices in agreement too.                                                *)
(***************************************************************************)

\* One note leaves fingers and voices in agreement, or nothing at all.
LEMMA PlayNoteFingers ==
    ASSUME NEW e, Fingered(e), NEW id \in Ids, NEW r \in PlayNote(e, id)
    PROVE  Fingered(r)
<1>1. id # NoId
  BY IdsAreNotes
<1> QED
  BY <1>1, NoteIsTaken, TakeNoteFingers

\* A chord of more pitches than the hand has strings.
LEMMA PlaySinglyFingers ==
    ASSUME NEW e, Fingered(e), NEW ids \in SUBSET Ids, NEW repeats,
           IsFiniteSet(ids), NEW r \in PlaySingly(e, ids, repeats)
    PROVE  Fingered(r)
<1> DEFINE N == Len(Canonical(ids))
<1>1. N \in Nat
  BY SinglyIsWalked
<1>2. PICK played : SingleWalk(e, ids, repeats, played) /\ r \in played[N]
  BY SinglyIsWalked
<1>3. N = Cardinality(ids) /\ \A n \in 1 .. N : Canonical(ids)[n] \in Ids
  <2>1. /\ Cardinality(ids) \in Nat
        /\ Canonical(ids) \in [1 .. Cardinality(ids) -> ids]
    BY CanonicalOnce
  <2>2. Canonical(ids) \in Seq(ids) /\ Len(Canonical(ids)) = Cardinality(ids)
    BY <2>1, SeqDef
  <2> QED
    BY <2>1, <2>2
<1> DEFINE G == {m \in 0 .. N : \A f \in played[m] : Fingered(f)}
<1>4. 0 \in G
  BY <1>1, <1>2 DEF SingleWalk
<1>5. ASSUME NEW m \in 0 .. N, m < N, m \in G
      PROVE  m + 1 \in G
  <2> DEFINE id == Canonical(ids)[m + 1]
  <2>1. m + 1 \in 0 .. N /\ m + 1 \in 1 .. N /\ (m + 1) - 1 = m
    BY <1>1, <1>5
  <2>2. \/ played[m + 1] = NextNotes(NextNotes(played[m], id), id)
        \/ played[m + 1] = NextNotes(played[m], id)
    BY <1>2, <2>1 DEF SingleWalk
  <2>3. id \in Ids
    BY <1>3, <2>1
  <2> HIDE DEF id
  <2>4. ASSUME NEW es, \A f \in es : Fingered(f)
        PROVE  \A f \in NextNotes(es, id) : Fingered(f)
    <3> SUFFICES ASSUME NEW f \in es, NEW g \in PlayNote(f, id)
                 PROVE  Fingered(g)
      BY DEF NextNotes
    <3> QED
      BY <2>3, <2>4, PlayNoteFingers
  <2>5. \A f \in played[m] : Fingered(f)
    BY <1>5
  <2>6. \A f \in played[m + 1] : Fingered(f)
    <3> HIDE DEF N, G
    <3> QED
      BY <2>2, <2>4, <2>5, Zenon
  <2> HIDE DEF N
  <2> QED
    BY <2>1, <2>6
<1>6. N \in G
  <2> HIDE DEF N, G
  <2> QED
    BY <1>1, <1>4, <1>5, WalkUp
<1> QED
  BY <1>2, <1>6

\* In the middle of a chord: the strings that are still to be struck may not
\* agree with their fingers.
FingeredBut(f, left) ==
    /\ IsEngine(f)
    /\ OneFinger(f.held)
    /\ \A s \in Strings \ left : Paired(f.held[s], f.voice[s])

\* One event more of the chord: its string agrees again.
LEMMA ChordGoesOn ==
    ASSUME NEW id \in Ids, id.expr = Legacy, NEW t, NEW left, NEW rest,
           left \subseteq rest \cup {t},
           NEW f, FingeredBut(f, left), NEW timing
    PROVE  FingeredBut(TakeNote(f, id, t, timing), rest)
<1> DEFINE r == TakeNote(f, id, t, timing)
<1>1. TakesNote(f, id, t, r)
  BY PlayOnIs, Zenon DEF FingeredBut
<1> HIDE DEF r
<1>2. PICK w : /\ t \in Strings => Sounds(w, id)
               /\ \A s \in Strings :
                     /\ r.held[s] = PlayedHeld(f, id, t, s)
                     /\ r.voice[s] = PlayedVoice(f, id, t, s, w)
  BY <1>1 DEF TakesNote
<1>3. ASSUME NEW s \in Strings, s # t
      PROVE  r.held[s] = f.held[s] /\ r.voice[s] = f.voice[s]
  BY <1>2, <1>3 DEF PlayedHeld, PlayedVoice, Leaves
<1>4. ASSUME t \in Strings
      PROVE  /\ r.held[t].id = id /\ r.held[t].count > 0
             /\ Sounds(r.voice[t], id)
  <2>1. r.held[t] = OneMore(f.held[t], id) /\ Sounds(r.voice[t], id)
    BY <1>2, <1>4 DEF PlayedHeld, PlayedVoice
  <2>2. IsOwner(f.held[t])
    BY <1>4 DEF FingeredBut, IsEngine
  <2>3. OneMore(f.held[t], id).id = id /\ OneMore(f.held[t], id).count > 0
    BY <2>2, OwnersCount
  <2> QED
    BY <2>1, <2>3
<1>5. ASSUME NEW s \in Strings \ rest
      PROVE  Paired(r.held[s], r.voice[s])
  <2>1. CASE s = t
    BY <1>4, <2>1, IdsAreNotes DEF Paired, Sounds
  <2>2. CASE s # t
    <3>1. Paired(f.held[s], f.voice[s])
      BY <2>2 DEF FingeredBut
    <3> QED
      BY <1>3, <2>2, <3>1
  <2> QED
    BY <2>1, <2>2
<1>6. OneFinger(r.held)
  <2> SUFFICES ASSUME NEW s \in Strings, NEW u \in Strings,
                      r.held[s].count > 0, r.held[u].count > 0,
                      r.held[s].id.expr = r.held[u].id.expr,
                      r.held[s].id.expr # Legacy
               PROVE  s = u
    BY DEF OneFinger
  <2>1. s # t /\ u # t
    BY <1>4
  <2>2. r.held[s] = f.held[s] /\ r.held[u] = f.held[u]
    BY <1>3, <2>1
  <2> QED
    BY <2>2 DEF FingeredBut, OneFinger
<1> QED
  BY <1>1, <1>5, <1>6 DEF FingeredBut, TakesNote, r

\* The hand's change of shape leaves every string that agreed, but those it is
\* about to strike: where each pitch is on one string, none is left empty.
LEMMA RefingeredFingers ==
    ASSUME NEW e, OnFrets(e), Fingered(e), Alone(e), solo = {},
           NEW ids \in SUBSET Ids, IsFiniteSet(ids),
           \A i \in ids : i.expr = Legacy,
           NEW a \in BestShapes(e, ids)
    PROVE  FingeredBut(Refingered(e, ids, a), {a[i] : i \in ids})
<1> DEFINE r == Refingered(e, ids, a)
<1>1. IsEngine(e) /\ IsEngine(r) /\ r.voice = e.voice
  BY RefingeredIs DEF OnFrets
<1>2. ASSUME NEW s \in Strings
      PROVE  \/ r.held[s].id \in ids /\ a[r.held[s].id] = s
             \/ r.held[s] = e.held[s]
             \/ /\ r.held[s] = Free
                /\ \/ \E i \in ids : a[i] = s
                   \/ \E i \in ids : /\ a[i] # s /\ e.held[s].count > 0
                                     /\ \/ e.held[s].id = i
                                        \/ /\ i.expr # Legacy
                                           /\ e.held[s].id.expr = i.expr
  BY <1>1, RefingeredOwner
<1> HIDE DEF r
<1>3. ASSUME NEW s \in Strings, \A i \in ids : a[i] # s
      PROVE  r.held[s] = e.held[s]
  <2> SUFFICES ASSUME e.held[s].count > 0, e.held[s].id \in ids
               PROVE  FALSE
    BY <1>2, <1>3
  <2>1. Holders(e, e.held[s].id) = {s}
    BY DEF Alone, Holders
  <2>2. s \in Allowed /\ solo \subseteq Strings
    BY DEF Allowed
  <2> QED
    BY <1>3, <2>1, <2>2, ShapeKeepsFinger
<1>4. OneFinger(r.held)
  <2> SUFFICES ASSUME NEW s \in Strings, NEW u \in Strings,
                      r.held[s].count > 0, r.held[u].count > 0,
                      r.held[s].id.expr = r.held[u].id.expr,
                      r.held[s].id.expr # Legacy
               PROVE  s = u
    BY DEF OneFinger
  <2>1. r.held[s] = e.held[s] /\ r.held[u] = e.held[u]
    BY <1>2 DEF Free
  <2> QED
    BY <2>1 DEF Fingered, OneFinger
<1>5. \A s \in Strings \ {a[i] : i \in ids} : Paired(r.held[s], r.voice[s])
  BY <1>1, <1>3 DEF Fingered
<1> QED
  BY <1>1, <1>4, <1>5 DEF FingeredBut, r

\* A chord that fits the neck.
LEMMA PlayShapeFingers ==
    ASSUME NEW e, OnFrets(e), Fingered(e), Alone(e), solo = {},
           NEW ids \in SUBSET Ids, IsFiniteSet(ids),
           NEW repeats \in SUBSET ids, IsFiniteSet(repeats),
           \A i \in ids : i.expr = Legacy,
           NEW a \in BestShapes(e, ids), NEW r \in PlayShape(e, ids, repeats, a)
    PROVE  Fingered(r)
<1> DEFINE events == ShapeEvents(ids, repeats)
           N == Len(events)
           k == Cardinality(ids)
           left(m) == StillToCome(events, k, a, m)
<1>1. /\ N \in Nat /\ k \in Nat /\ k <= N
      /\ \A n \in 1 .. N : events[n] \in ids
      /\ \A i \in ids : \E n \in 1 .. k : events[n] = i
  BY EventsInOrder
<1>2. PICK struck : ShapeWalk(e, ids, repeats, a, struck) /\ r \in struck[N]
  BY ShapeIsWalked
<1> DEFINE G == {m \in 0 .. N : \A f \in struck[m] : FingeredBut(f, left(m))}
<1>4. 0 \in G
  <2>1. struck[0] = {Refingered(e, ids, a)}
    BY <1>2 DEF ShapeWalk
  <2>2. FingeredBut(Refingered(e, ids, a), {a[i] : i \in ids})
    BY RefingeredFingers
  <2>3. {a[i] : i \in ids} \subseteq left(0)
    <3> SUFFICES ASSUME NEW i \in ids PROVE a[i] \in left(0)
      OBVIOUS
    <3>1. PICK n \in 1 .. k : events[n] = i
      BY <1>1
    <3>2. n > 0
      BY <1>1
    <3> HIDE DEF events
    <3> QED
      BY <3>1, <3>2 DEF StillToCome
  <2> HIDE DEF left
  <2>4. FingeredBut(Refingered(e, ids, a), left(0))
    BY <2>2, <2>3 DEF FingeredBut
  <2>5. 0 \in 0 .. N
    BY <1>1
  <2> HIDE DEF N
  <2> QED
    BY <2>1, <2>4, <2>5
<1>5. ASSUME NEW m \in 0 .. N, m < N, m \in G
      PROVE  m + 1 \in G
  <2> DEFINE id == events[m + 1]
  <2>1. m + 1 \in 0 .. N /\ m + 1 \in 1 .. N /\ (m + 1) - 1 = m
    BY <1>1, <1>5
  <2>2. struck[m + 1] = StruckNotes(struck[m], id, a[id])
    BY <1>2, <2>1 DEF ShapeWalk
  <2>3. id \in Ids /\ id.expr = Legacy
    BY <1>1, <2>1
  <2>4. left(m) \subseteq left(m + 1) \cup {a[id]}
    <3> SUFFICES ASSUME NEW n \in 1 .. k, n > m, n # m + 1
                 PROVE  n > m + 1
      BY DEF StillToCome
    <3> QED
      BY <1>1, <2>1
  <2> HIDE DEF id, left
  <2>5. ASSUME NEW f \in struck[m + 1]
        PROVE  FingeredBut(f, left(m + 1))
    <3>1. PICK g \in struck[m], timing \in Timings :
             f = TakeNote(g, id, a[id], timing)
      BY <2>2 DEF StruckNotes
    <3>2. FingeredBut(g, left(m))
      BY <1>5, <3>1
    <3> HIDE DEF N, G
    <3>3. FingeredBut(TakeNote(g, id, a[id], timing), left(m + 1))
      BY <2>3, <2>4, <3>2, ChordGoesOn
    <3> QED
      BY <3>1, <3>3
  <2> HIDE DEF N
  <2> QED
    BY <2>1, <2>5
<1>6. N \in G
  <2> HIDE DEF N, G
  <2> QED
    BY <1>1, <1>4, <1>5, WalkUp
<1>7. left(N) = {}
  <2>1. \A n \in 1 .. k : ~(n > N)
    BY <1>1
  <2> HIDE DEF N
  <2> QED
    BY <2>1 DEF StillToCome
<1> HIDE DEF left
<1>8. FingeredBut(r, {})
  BY <1>2, <1>6, <1>7
<1> QED
  BY <1>8 DEF FingeredBut, Fingered

\* Who plays plain notes and masks no strings.
PlainHand == client.solos = {} /\ client.expressions \subseteq {Legacy}

PlainFingers == PlainHand => Fingered(engine)

LEMMA PlainFingersStep ==
    Attends /\ Apart /\ FretInv /\ PlainFingers /\ [Next]_vars => PlainFingers'
<1> SUFFICES ASSUME Attends, Apart, FretInv, PlainFingers, [Next]_vars, PlainHand
             PROVE  Fingered(engine')
  BY ClientStays DEF PlainFingers, PlainHand
<1>1. client \in Clients /\ Fingered(engine)
  BY DEF Attends, PlainFingers
<1>2. solo = {} /\ Alone(engine) /\ OnFrets(engine)
  BY DEF Apart, PlainHand, Settled, FretInv
<1>3. ASSUME NEW ids \in SUBSET Played, NEW repeats \in SUBSET ids,
             NoteOnChord(ids, repeats)
      PROVE  Fingered(engine')
  <2>1. ids \in SUBSET Ids
    BY <1>1, PlayedAreIds
  <2>2. IsFiniteSet(ids) /\ IsFiniteSet(repeats)
    BY <1>1, ChordsAreFinite
  <2>3. engine' \in PlayChord(engine, ids, repeats)
    BY <1>3 DEF NoteOnChord
  <2>4. \A i \in ids : i.expr = Legacy
    BY DEF Played, PlainHand
  <2>5. CASE Shapes(ids) = {}
    <3>1. engine' \in PlaySingly(engine, ids, repeats)
      BY <2>3, <2>5 DEF PlayChord
    <3> QED
      BY <1>1, <2>1, <2>2, <3>1, PlaySinglyFingers
  <2>6. CASE Shapes(ids) # {}
    <3>1. PICK a \in BestShapes(engine, ids) :
             engine' \in PlayShape(engine, ids, repeats, a)
      BY <2>3, <2>6 DEF PlayChord
    <3> QED
      BY <1>1, <1>2, <2>1, <2>2, <2>4, <3>1, PlayShapeFingers
  <2> QED
    BY <2>5, <2>6
<1> QED
  BY <1>1, <1>3, FingeredStep

\* A client of plain notes and no solo masks may play chords, whole or too wide
\* for the hand, with repeats and stolen strings: fingers and voices agree
\* (noteOnChord's re-fingering, noteOnInternal, noteOff).
THEOREM PlainChordsAgree == Spec => [](PlainHand => KeyDownMeansHeld)
<1>1. PlainFingers => (PlainHand => KeyDownMeansHeld)
  BY DEF PlainFingers, Fingered, Paired, KeyDownMeansHeld
<1>2. Init => PlainFingers
  <2>1. Fingered(Silenced)
    BY SilencedIs, EmptyString, AllUpFingers
  <2> QED
    BY <2>1 DEF Init, PlainFingers
<1> QED
  BY <1>1, <1>2, AttendsStart, AttendsStep, ApartStart, ApartStep, FretStart, FretStep,
     PlainFingersStep, PTL DEF Spec
=============================================================================
