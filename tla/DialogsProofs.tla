--------------------------- MODULE DialogsProofs ---------------------------
(***************************************************************************)
(* Proofs about Dialogs, for any messages, dates, reminders, voice messages   *)
(* and scopes.                                                              *)
(*                                                                         *)
(* A handler is a set of outcomes.  What must hold of an outcome, whichever   *)
(* button or text it answers, is stated once (OutcomeOK); each handler is     *)
(* shown to keep to it, and a step applies an outcome.                       *)
(***************************************************************************)
EXTENDS Dialogs, TLAPS

States == Prompts \cup Silent

Sessions ==
    [state : States, date : Dates, draft : Drafts,
     smart : [raw : Sources \cup {Nothing}, intent : Intents \cup {Nothing}],
     pend : Reminders \cup {Nothing}, picked : BOOLEAN, note : Notes \cup {Nothing},
     id : Notes \cup {Nothing}, ret : States, found : {{}, Notes},
     path : {Root, Folder}, last : Msgs \cup {Nothing}]

SessionOK(u) ==
    /\ u \in Sessions
    /\ u.state = "reminder_postpone_time" => u.picked
    /\ u.state = "reminder_create_interval" => "custom_days" \in Kinds

\* The texts of a session were typed; k is the number of texts so far.
Heard(u, k) ==
    /\ u.smart.raw \in Texts => u.smart.raw <= k
    /\ u.draft.title \in Texts => u.draft.title <= k

\* A session that a handler starts from or comes to, when it asks nothing.
Good(u, k) ==
    /\ SessionOK(u) /\ Heard(u, k)
    /\ u.state = "append_to_note_input" => u.note \in {asked.note, Nothing} \cap {s.note, Nothing}
    /\ u.pend \in {s.pend, Nothing}
    /\ u.smart.raw \in spent => u.smart.raw = s.smart.raw

EffectOK(e) ==
    /\ e \in [what : {e.what}, text : {e.text}, dest : {e.dest}, by : {e.by}, told : BOOLEAN]
    /\ e.what = "ask_append" => e.dest \in Notes /\ e.dest = s.note
    /\ e.what = "ask_postpone" => e.dest \in Reminders
    /\ e.what = "append_path" => e.dest = asked.note
    /\ e.what = "postpone" => e.dest = s.pend

\* The outcome but for who confirmed.  A postponement that is reported closes the
\* question; a session that is forgotten after a call does not wait for a time.
BaseOK(o, k) ==
    /\ o = [to |-> o.to, show |-> o.show, at |-> o.at, did |-> o.did, part |-> o.part]
    /\ o.at \in {"here", "new", "last"}
    /\ EffectOK(o.did)
    /\ SessionOK(o.to) /\ Heard(o.to, k)
    /\ o.to.state = "append_to_note_input" =>
          o.to.note \in {IF o.did.what = "ask_append" THEN o.did.dest ELSE asked.note, Nothing}
    /\ o.to.pend \in {IF o.did.what = "ask_postpone" THEN o.did.dest ELSE s.pend, Nothing}
    /\ o.to.smart.raw \in spent => o.to.smart.raw = s.smart.raw
    /\ o.did.told /\ o.did.what = "postpone" => o.to.pend = Nothing
    /\ o.to.state = "reminder_postpone_time" =>
          ~o.did.told \/ o.did.what \in {"none", "toggle", "done", "ask_postpone"}
    /\ \A v \in o.part : Good(v, k)

\* The confirmation of a voice message writes that message; a preview writes the
\* text of the session, which it closes when it reports.
ByOK(o, k) ==
    /\ o.did.by \in Jobs /\ o.did.what \in {"append", "task", "create"} =>
          \/ o.did.text = Nothing
          \/ o.did.text = o.did.by /\ (Writes(o.did) => o.did.dest = JobDate[o.did.by])
    /\ o.did.by = "smart" =>
          /\ Repeats(o.did) => o.did.text = s.smart.raw
          /\ o.did.told /\ o.did.text \in Texts =>
                o.did.text <= k /\ o.to.smart.raw # o.did.text

OutcomeOK(o, k) == BaseOK(o, k) /\ ByOK(o, k)

JobsOK ==
    /\ job \in [Jobs -> [intent : Intents \cup {"none"}, plan : Drafts]]
    /\ \A j \in Jobs : job[j].plan.title \in {j, Nothing}

AskedOK == asked \in [note : Notes \cup {Nothing}, rem : Reminders \cup {Nothing}]

\* A session that was lost is behind at most once: it names another reminder than
\* the last one asked about, or holds a text that was reported as written.
Strays == IF s.pend \in {asked.rem, Nothing} THEN 0 ELSE 1
Reopens == IF s.smart.raw \in spent THEN 1 ELSE 0

CountersOK ==
    /\ faults \in 0..MaxFaults /\ astray \in Nat /\ again \in Nat
    /\ astray + Strays <= faults
    /\ again + Reopens <= faults

Inv ==
    /\ texts \in 0..MaxTexts /\ spent \subseteq 1..texts
    /\ AskedOK /\ JobsOK /\ CountersOK
    /\ DOMAIN chat = Msgs /\ late.msg \in Msgs \cup {Nothing}
    /\ SessionOK(s) /\ Heard(s, texts)
    /\ s.state = "append_to_note_input" => s.note \in {asked.note, Nothing}
    /\ did.what = "append_path" => did.dest = asked.note
    /\ VoiceConfirmsNoOther

-----------------------------------------------------------------------------
(***************************************************************************)
(* Outcomes.                                                                *)
(***************************************************************************)
LEMMA NoEffectIs ==
    /\ NoEffect.what = "none" /\ NoEffect.text = Nothing /\ NoEffect.dest = Nothing
    /\ NoEffect.by = Nothing /\ NoEffect.told
    /\ EffectOK(NoEffect)
BY DEF NoEffect, EffectOK

LEMMA EffectIs ==
    ASSUME NEW w, NEW t, NEW d
    PROVE  LET e == Effect(w, t, d)
           IN  /\ e \in [what : {w}, text : {t}, dest : {d}, by : {Nothing}, told : BOOLEAN]
               /\ e.what = w /\ e.text = t /\ e.dest = d /\ e.by = Nothing /\ e.told
<1>1. Effect(w, t, d) \in
          [what : {w}, text : {t}, dest : {d}, by : {Nothing}, told : BOOLEAN]
    BY DEF Effect, NoEffect
<1>2. Effect(w, t, d).told
    BY DEF Effect, NoEffect
<1>3. QED BY <1>1, <1>2

\* No effect of these concerns a job or a preview.
LEMMA ByNobody ==
    ASSUME NEW k, NEW o, o.did.by = Nothing
    PROVE  ByOK(o, k)
BY ConstantsAssumption DEF ByOK, Sources, Repeats

\* The session goes on and nothing is called.
LEMMA GoOK ==
    ASSUME NEW k, NEW v, Good(v, k), NEW c
    PROVE  /\ OutcomeOK(Go(v, c), k) /\ Go(v, c).did = NoEffect /\ Go(v, c).to = v
           /\ Go(v, c).at = "here" /\ Go(v, c).show = c
<1>1. Go(v, c) = [to |-> v, show |-> c, at |-> "here", did |-> NoEffect, part |-> {}]
    BY DEF Go, Outcome
<1>2. /\ Go(v, c).did = NoEffect /\ Go(v, c).to = v /\ Go(v, c).at = "here"
      /\ Go(v, c).show = c /\ Go(v, c).part = {}
    BY <1>1
<1>3. BaseOK(Go(v, c), k)
    BY <1>1, <1>2, NoEffectIs DEF BaseOK, Good
<1>4. ByOK(Go(v, c), k)
    BY <1>2, NoEffectIs, ByNobody
<1>5. QED BY <1>2, <1>3, <1>4 DEF OutcomeOK

\* A call that asks the user nothing and concerns what the user was asked about.
LEMMA CallOK ==
    ASSUME NEW k, NEW v, Good(v, k), NEW c, NEW t, NEW d,
           NEW w \in {"toggle", "rating", "append", "task", "create", "delete", "done", "reject",
                      "append_path", "postpone"},
           w = "append_path" => d = asked.note,
           w = "postpone" => d = s.pend /\ v.pend = Nothing,
           w \notin {"toggle", "done"} => v.state # "reminder_postpone_time"
    PROVE  LET o == Outcome(v, c, Effect(w, t, d))
           IN  /\ OutcomeOK(o, k) /\ o.did = Effect(w, t, d) /\ o.to = v
<1> DEFINE o == Outcome(v, c, Effect(w, t, d))
<1>1. o = [to |-> v, show |-> c, at |-> "here", did |-> Effect(w, t, d), part |-> {}]
    BY DEF Outcome
<1>2. /\ o.did = Effect(w, t, d) /\ o.to = v /\ o.at = "here" /\ o.show = c /\ o.part = {}
      /\ o.did.by = Nothing /\ o.did.what = w
    BY <1>1, EffectIs
<1> HIDE DEF o
<1>3. EffectOK(o.did)
    BY <1>2, EffectIs DEF EffectOK
<1>4. BaseOK(o, k)
    BY <1>1, <1>2, <1>3 DEF BaseOK, Good
<1>5. ByOK(o, k)
    BY <1>2, ByNobody
<1>6. QED BY <1>2, <1>4, <1>5 DEF OutcomeOK, o

\* A write, whose failure may hide one that took effect.
LEMMA WriteOK ==
    ASSUME NEW k, NEW a, OutcomeOK(a, k), a.did.what \notin {"ask_append", "ask_postpone"},
           a.did.by = Nothing, NEW v, Good(v, k), NEW c
    PROVE  \A o \in Write(a, Go(v, c)) : OutcomeOK(o, k)
<1> DEFINE b == Go(v, c)
           e == [a.did EXCEPT !.told = FALSE]
           h == [b EXCEPT !.did = e]
<1>1. OutcomeOK(b, k) /\ b.did = NoEffect /\ b.to = v /\ b.at = "here" /\ b.show = c
    BY GoOK
<1>2. /\ e \in [what : {e.what}, text : {e.text}, dest : {e.dest}, by : {e.by}, told : BOOLEAN]
      /\ e.what = a.did.what /\ e.dest = a.did.dest /\ e.by = Nothing /\ ~e.told
    BY DEF OutcomeOK, BaseOK, EffectOK
<1>3. b = [to |-> b.to, show |-> b.show, at |-> b.at, did |-> b.did, part |-> b.part]
      /\ b.part = {}
    BY DEF Go, Outcome
<1> HIDE DEF b, e
<1>4. h = [to |-> v, show |-> c, at |-> "here", did |-> e, part |-> {}]
    BY <1>1, <1>3
<1>5. h.to = v /\ h.show = c /\ h.at = "here" /\ h.did = e /\ h.part = {}
    BY <1>4
<1> HIDE DEF h
<1>6. EffectOK(e)
    BY <1>2 DEF OutcomeOK, BaseOK, EffectOK
<1>7. BaseOK(h, k)
    BY <1>2, <1>4, <1>5, <1>6 DEF BaseOK, Good
<1>8. ByOK(h, k)
    BY <1>2, <1>5, ByNobody
<1>9. QED BY <1>1, <1>7, <1>8 DEF Write, OutcomeOK, b, h, e

\* Where an outcome is shown does not matter, nor which sessions its writes leave
\* when each of them is one that a handler may come to.
LEMMA PlaceOK ==
    ASSUME NEW k, NEW o, OutcomeOK(o, k)
    PROVE  OutcomeOK(New(o), k) /\ OutcomeOK(Last(o), k) /\ New(o).at = "new"
           /\ New(o).did = o.did /\ Last(o).did = o.did /\ New(o).to = o.to /\ Last(o).to = o.to
<1>1. /\ New(o) = [to |-> o.to, show |-> o.show, at |-> "new", did |-> o.did, part |-> o.part]
      /\ Last(o) = [to |-> o.to, show |-> o.show, at |-> "last", did |-> o.did, part |-> o.part]
    BY DEF OutcomeOK, BaseOK, New, Last
<1>2. /\ New(o).to = o.to /\ New(o).show = o.show /\ New(o).did = o.did /\ New(o).at = "new"
      /\ Last(o).to = o.to /\ Last(o).show = o.show /\ Last(o).did = o.did /\ Last(o).at = "last"
      /\ New(o).part = o.part /\ Last(o).part = o.part
    BY <1>1
<1>3. BaseOK(New(o), k) /\ BaseOK(Last(o), k)
    BY <1>1, <1>2 DEF OutcomeOK, BaseOK
<1>4. ByOK(New(o), k) /\ ByOK(Last(o), k)
    BY <1>2 DEF OutcomeOK, ByOK
<1>5. QED BY <1>2, <1>3, <1>4 DEF OutcomeOK

LEMMA PartlyOK ==
    ASSUME NEW k, NEW o, OutcomeOK(o, k), NEW sessions, \A v \in sessions : Good(v, k)
    PROVE  OutcomeOK(Partly(o, sessions), k) /\ Partly(o, sessions).did = o.did
           /\ Partly(o, sessions).to = o.to /\ Partly(o, sessions).at = o.at
<1> DEFINE p == Partly(o, sessions)
<1>1. p = [to |-> o.to, show |-> o.show, at |-> o.at, did |-> o.did, part |-> sessions]
    BY DEF OutcomeOK, BaseOK, Partly
<1>2. /\ p.to = o.to /\ p.show = o.show /\ p.at = o.at /\ p.did = o.did
      /\ p.part = sessions
    BY <1>1
<1> HIDE DEF p
<1>3. BaseOK(p, k)
    BY <1>1, <1>2 DEF OutcomeOK, BaseOK
<1>4. ByOK(p, k)
    BY <1>2 DEF OutcomeOK, ByOK
<1>5. QED BY <1>2, <1>3, <1>4 DEF OutcomeOK, p

-----------------------------------------------------------------------------
(***************************************************************************)
(* A step.                                                                  *)
(***************************************************************************)

\* GetContext when the session is not there.
LEMMA FreshGood ==
    ASSUME NEW k, Nothing \notin spent
    PROVE  Good(Fresh, k)
<1>1. Nothing \notin Texts
    BY ConstantsAssumption DEF Sources
<1>2. /\ NoSmart \in [raw : Sources \cup {Nothing}, intent : Intents \cup {Nothing}]
      /\ NoSmart.raw = Nothing /\ NoDraft \in Drafts /\ NoDraft.title = Nothing
    BY DEF NoSmart, NoDraft, Drafts
<1>3. /\ Fresh.state = "idle" /\ Fresh.smart = NoSmart /\ Fresh.draft = NoDraft
      /\ Fresh.pend = Nothing
    BY DEF Fresh
<1>4. Today \in Dates /\ "idle" \in States
    BY ConstantsAssumption DEF States, Silent
<1>5. SessionOK(Fresh)
    BY <1>2, <1>4 DEF Fresh, SessionOK, Sessions
<1>6. QED BY <1>1, <1>2, <1>3, <1>5 DEF Good, Heard

LEMMA NothingSpent ==
    ASSUME Inv
    PROVE  Nothing \notin spent /\ Nothing \notin Texts /\ spent \subseteq Texts
<1>1. Nothing \notin Texts
    BY ConstantsAssumption DEF Sources
<1>2. ASSUME NEW x \in spent
      PROVE  x \in Texts
    BY ConstantsAssumption DEF Inv, Texts
<1>3. QED BY <1>1, <1>2

\* The sessions that a handler leaves when Redis fails.
LEMMA TornOK ==
    ASSUME Inv, NEW k, NEW o, OutcomeOK(o, k), NEW u, Good(u, k), NEW v \in Torn(o, u)
    PROVE  /\ SessionOK(v) /\ Heard(v, k)
           /\ v.state = "append_to_note_input" =>
                 v.note \in {IF o.did.what = "ask_append" THEN o.did.dest ELSE asked.note, Nothing}
<1> DEFINE P(w) == /\ SessionOK(w) /\ Heard(w, k)
                   /\ w.state = "append_to_note_input" =>
                        w.note \in {IF o.did.what = "ask_append" THEN o.did.dest ELSE asked.note,
                                    Nothing}
           left == {o.to, u} \cup o.part
<1>1. \A w : Good(w, k) => P(w)
    BY DEF Good, OutcomeOK, BaseOK, EffectOK
<1>2. \A w \in left : P(w)
    BY <1>1 DEF OutcomeOK, BaseOK
<1>3. \A w \in left : P([w EXCEPT !.last = s.last])
    BY <1>2 DEF Inv, SessionOK, Sessions, Heard
<1>4. \A w \in Forgotten(o) : P(w)
    <2> SUFFICES ASSUME o.did.told, o.did.what \notin {"none", "toggle", "done", "ask_postpone"}
                 PROVE  P(In(Fresh, o.to.state))
        BY DEF Forgotten
    <2>1. o.to.state \in States /\ o.to.state # "reminder_postpone_time"
          /\ (o.to.state = "reminder_create_interval" => "custom_days" \in Kinds)
        BY DEF OutcomeOK, BaseOK, SessionOK, Sessions
    <2>2. Good(Fresh, k) /\ Fresh.note = Nothing
        BY FreshGood, NothingSpent DEF Fresh
    <2> DEFINE w == In(Fresh, o.to.state)
    <2>3. /\ w \in Sessions /\ w.state = o.to.state /\ w.note = Nothing
          /\ w.smart = Fresh.smart /\ w.draft = Fresh.draft
        BY <2>1, <2>2 DEF Good, SessionOK, Sessions, In
    <2> HIDE DEF w
    <2>4. SessionOK(w) /\ Heard(w, k)
        BY <2>1, <2>2, <2>3 DEF Good, SessionOK, Heard
    <2>5. QED BY <2>3, <2>4 DEF w
<1>5. v \in left \cup {[w EXCEPT !.last = s.last] : w \in left} \cup Forgotten(o)
    BY DEF Torn
<1> HIDE DEF left, P
<1>6. P(v)
    BY <1>2, <1>3, <1>4, <1>5
<1>7. QED BY <1>6 DEF P

\* What a step may do.
Moves ==
    /\ Inv'
    /\ Misses(did') => astray < faults
    /\ Repeats(did') => again < faults

\* A session that is behind pays for what it does with it.
LEMMA CountsOK ==
    ASSUME Inv, NEW o, NEW k, OutcomeOK(o, k), NEW m, NEW u, Apply(o, m, u)
    PROVE  /\ CountersOK'
           /\ Misses(did') => astray < faults
           /\ Repeats(did') => again < faults
<1>1. /\ did' = o.did
      /\ asked'.rem = (IF o.did.what = "ask_postpone" THEN o.did.dest ELSE asked.rem)
      /\ spent' = IF o.did.by = "smart" /\ o.did.told /\ o.did.text \in Texts
                  THEN spent \cup {o.did.text} ELSE spent
      /\ astray' = IF o.did.told /\ Misses(o.did) THEN astray + 1 ELSE astray
      /\ again' = IF o.did.told /\ Repeats(o.did) THEN again + 1 ELSE again
    BY DEF Apply
<1>2. /\ faults \in Nat /\ MaxFaults \in Nat /\ faults <= MaxFaults
      /\ astray \in Nat /\ again \in Nat
      /\ Strays \in {0, 1} /\ astray + Strays <= faults
      /\ Reopens \in {0, 1} /\ again + Reopens <= faults
    BY ConstantsAssumption DEF Inv, CountersOK, Strays, Reopens
<1>3. Misses(o.did) => Strays = 1
    BY DEF Misses, Strays, OutcomeOK, BaseOK, EffectOK
<1>4. Repeats(o.did) => Reopens = 1
    BY DEF Repeats, Reopens, OutcomeOK, ByOK
<1>5. astray' \in Nat /\ astray' <= faults /\ again' \in Nat /\ again' <= faults
    BY <1>1, <1>2, <1>3, <1>4
<1>6. Strays' \in {0, 1} /\ Reopens' \in {0, 1}
    BY DEF Strays, Reopens
<1>7. CASE s' = o.to /\ UNCHANGED faults
    <2>1. astray' + Strays' <= faults
        <3>1. CASE o.did.what = "ask_postpone"
            <4>1. Strays' = 0
                BY <1>1, <1>7, <3>1 DEF Strays, OutcomeOK, BaseOK
            <4>2. QED BY <1>5, <4>1
        <3>2. CASE o.did.told /\ Misses(o.did)
            <4>1. o.to.pend = Nothing
                BY <3>2 DEF Misses, OutcomeOK, BaseOK
            <4>2. Strays' = 0
                BY <1>7, <4>1 DEF Strays
            <4>3. QED BY <1>5, <4>2
        <3>3. CASE o.did.what # "ask_postpone" /\ ~(o.did.told /\ Misses(o.did))
            <4>1. o.to.pend \in {s.pend, Nothing} /\ asked'.rem = asked.rem /\ astray' = astray
                BY <1>1, <3>3 DEF OutcomeOK, BaseOK
            <4>2. Strays' = 0 \/ Strays' = Strays
                BY <1>7, <4>1 DEF Strays
            <4>3. QED BY <1>2, <1>5, <4>1, <4>2
        <3>4. QED BY <3>1, <3>2, <3>3
    <2>2. again' + Reopens' <= faults
        <3>1. /\ o.to.smart.raw \in spent => o.to.smart.raw = s.smart.raw
              /\ o.did.by = "smart" /\ o.did.told /\ o.did.text \in Texts =>
                    o.to.smart.raw # o.did.text
            BY DEF OutcomeOK, BaseOK, ByOK
        <3>2. o.to.smart.raw \in spent' => o.to.smart.raw \in spent
            BY <1>1, <3>1
        <3>3. Reopens' = 0 \/ Reopens' = Reopens
            BY <1>7, <3>1, <3>2 DEF Reopens
        <3>4. CASE o.did.told /\ Repeats(o.did)
            <4>1. o.did.by = "smart" /\ o.did.text \in spent /\ o.did.text = s.smart.raw
                BY <3>4 DEF Repeats, OutcomeOK, ByOK
            <4>2. o.did.text \in Texts
                BY <4>1, NothingSpent
            <4>3. o.to.smart.raw \notin spent'
                BY <3>1, <3>2, <3>4, <4>1, <4>2
            <4>4. Reopens' = 0
                BY <1>7, <4>3 DEF Reopens
            <4>5. QED BY <1>5, <4>4
        <3>5. CASE ~(o.did.told /\ Repeats(o.did))
            BY <1>1, <1>2, <1>5, <3>3, <3>5
        <3>6. QED BY <3>4, <3>5
    <2>3. QED BY <1>1, <1>2, <1>3, <1>4, <1>5, <1>7, <2>1, <2>2 DEF CountersOK, Misses, Repeats
<1>8. CASE Fault
    <2>1. faults' = faults + 1 /\ faults' <= MaxFaults
        BY <1>2, <1>8 DEF Fault
    <2>2. astray' + Strays' <= faults' /\ again' + Reopens' <= faults'
        <3>1. ASSUME NEW x \in Nat, NEW y \in {0, 1}, x <= faults
              PROVE  x + y <= faults'
            BY <1>2, <2>1, <3>1
        <3>2. QED BY <1>5, <1>6, <3>1
    <2>3. CountersOK'
        BY <1>2, <1>5, <2>1, <2>2 DEF CountersOK
    <2>4. QED BY <1>1, <1>2, <1>3, <1>4, <2>3
<1>9. QED BY <1>7, <1>8 DEF Apply

\* A handler applies one of its outcomes.
LEMMA ApplyOK ==
    ASSUME Inv, NEW o, NEW k \in texts..MaxTexts, texts' = k, OutcomeOK(o, k),
           NEW u, Good(u, k), NEW m, m \in Msgs \/ o.at # "here", Apply(o, m, u), JobsOK'
    PROVE  Moves
<1>1. /\ s' \in Torn(o, u) /\ did' = o.did
      /\ asked' = [note |-> IF o.did.what = "ask_append" THEN o.did.dest ELSE asked.note,
                   rem  |-> IF o.did.what = "ask_postpone" THEN o.did.dest ELSE asked.rem]
      /\ spent' = IF o.did.by = "smart" /\ o.did.told /\ o.did.text \in Texts
                  THEN spent \cup {o.did.text} ELSE spent
    BY DEF Apply, Torn
<1>2. asked'.note = (IF o.did.what = "ask_append" THEN o.did.dest ELSE asked.note)
    BY <1>1
<1>3. texts \in Nat /\ k \in Nat /\ MaxTexts \in Nat /\ texts <= k /\ k <= MaxTexts
    BY ConstantsAssumption DEF Inv
<1>4. AskedOK'
    BY <1>1 DEF Inv, AskedOK, OutcomeOK, BaseOK, EffectOK
<1>5. spent' \subseteq 1..k
    <2>1. spent \subseteq 1..k
        BY <1>3 DEF Inv
    <2>2. o.did.by = "smart" /\ o.did.told /\ o.did.text \in Texts => o.did.text \in 1..k
        BY <1>3 DEF OutcomeOK, ByOK, Texts
    <2>3. QED BY <1>1, <2>1, <2>2
<1>6. /\ SessionOK(s') /\ Heard(s', k)
      /\ s'.state = "append_to_note_input" => s'.note \in {asked'.note, Nothing}
    BY <1>1, <1>2, TornOK
<1>7. SessionOK(s)' /\ Heard(s, texts)'
    BY <1>6 DEF SessionOK, Sessions, Heard
<1>8. DOMAIN chat' = Msgs /\ late'.msg \in Msgs \cup {Nothing}
    <2>1. CASE o.show = Nothing
        BY <2>1 DEF Apply, Inv
    <2>2. CASE o.show # Nothing
        <3>1. PICK p \in Place(o, m, s') :
                  /\ chat' = [chat EXCEPT ![p] = o.show]
                  /\ late' = IF Edits(o, s') THEN [msg |-> p, screen |-> chat[p]] ELSE late
            BY <2>2 DEF Apply
        <3>2. p \in Msgs
            BY <1>6 DEF Place, Edits, OutcomeOK, BaseOK, SessionOK, Sessions
        <3>3. QED BY <3>1, <3>2 DEF Inv
    <2>3. QED BY <2>1, <2>2
<1>9. did'.what = "append_path" => did'.dest = asked'.note
    BY <1>1, <1>2 DEF OutcomeOK, BaseOK, EffectOK
<1>10. VoiceConfirmsNoOther'
    BY <1>1 DEF OutcomeOK, ByOK, Writes, VoiceConfirmsNoOther
<1>11. texts' \in 0..MaxTexts
    BY <1>3
<1>12. QED BY <1>4, <1>5, <1>6, <1>7, <1>8, <1>9, <1>10, <1>11, CountsOK DEF Inv, Moves

LEMMA SessionGood ==
    ASSUME Inv, NEW m \in Msgs
    PROVE  /\ Good(Session(m), texts)
           /\ Session(m).smart = s.smart /\ Session(m).date = s.date
<1> DEFINE u == [s EXCEPT !.last = m]
<1>1. SessionOK(s)
    BY DEF Inv
<1>2. /\ u.smart = s.smart /\ u.date = s.date /\ u.state = s.state /\ u.note = s.note
      /\ u.pend = s.pend /\ u.draft = s.draft /\ u.picked = s.picked
    BY <1>1 DEF SessionOK, Sessions
<1>3. u \in Sessions
    BY <1>1 DEF SessionOK, Sessions
<1> HIDE DEF u
<1>4. Good(u, texts)
    BY <1>2, <1>3 DEF Inv, Good, SessionOK, Heard
<1>5. QED BY <1>2, <1>4 DEF Session, u

\* The session as it is.
LEMMA HereGood ==
    ASSUME Inv
    PROVE  Good(s, texts)
BY DEF Inv, Good

LEMMA PressFromOK ==
    ASSUME Inv, UNCHANGED texts, JobsOK', NEW u, Good(u, texts), NEW m \in Msgs, NEW name,
           NEW arg, NEW outcomes, \A o \in outcomes : OutcomeOK(o, texts),
           PressFrom(u, m, name, arg, outcomes)
    PROVE  Moves
<1>1. PICK o \in outcomes : Apply(o, m, u)
    BY DEF PressFrom
<1>2. texts \in texts..MaxTexts
    BY ConstantsAssumption DEF Inv
<1>3. QED BY <1>1, <1>2, ApplyOK

LEMMA PressOK ==
    ASSUME Inv, UNCHANGED <<texts, job>>, NEW m \in Msgs, NEW name, NEW arg, NEW outcomes,
           \A o \in outcomes : OutcomeOK(o, texts), Press(m, name, arg, outcomes)
    PROVE  Moves
<1>1. JobsOK'
    BY DEF Inv, JobsOK
<1>2. QED BY <1>1, SessionGood, PressFromOK DEF Press

LEMMA ClickOK ==
    ASSUME Inv, UNCHANGED <<texts, job>>, NEW m \in Msgs, NEW name, NEW outcomes,
           \A o \in outcomes : OutcomeOK(o, texts), Click(m, name, outcomes)
    PROVE  Moves
BY PressOK DEF Click

\* The next text is new.
LEMMA NextText ==
    ASSUME Inv, texts < MaxTexts
    PROVE  /\ texts + 1 \in Texts /\ texts + 1 \notin spent /\ texts \in Nat
           /\ \A u : Good(u, texts) => Good(u, texts + 1)
<1>1. texts \in Nat /\ MaxTexts \in Nat /\ spent \subseteq 1..texts
    BY ConstantsAssumption DEF Inv
<1>2. texts + 1 \in Texts
    BY <1>1 DEF Texts
<1>3. texts + 1 \notin spent
    BY <1>1
<1>4. ASSUME NEW u, Good(u, texts)
      PROVE  Good(u, texts + 1)
    <2>1. \A t \in Texts : t <= texts => t <= texts + 1
        BY <1>1 DEF Texts
    <2>2. Heard(u, texts + 1)
        BY <1>4, <2>1 DEF Good, Heard
    <2>3. QED BY <1>4, <2>2 DEF Good
<1>5. QED BY <1>1, <1>2, <1>3, <1>4

LEMMA TypeStep ==
    ASSUME Inv, NEW states, NEW outcomes, Type(states, outcomes),
           \A o \in outcomes : OutcomeOK(o, texts + 1)
    PROVE  Moves
<1>1. PICK o \in outcomes : Apply(IF o.at = "here" THEN New(o) ELSE o, Nothing, s)
    BY DEF Type
<1> DEFINE p == IF o.at = "here" THEN New(o) ELSE o
<1>2. OutcomeOK(p, texts + 1) /\ p.at # "here"
    BY PlaceOK
<1>3. texts' = texts + 1 /\ job' = job /\ texts < MaxTexts
    BY DEF Type
<1>4. texts + 1 \in texts..MaxTexts
    BY <1>3, ConstantsAssumption DEF Inv
<1>5. JobsOK'
    BY <1>3 DEF Inv, JobsOK
<1>6. Apply(p, Nothing, s)
    BY <1>1
<1>7. Good(s, texts + 1)
    BY <1>3, NextText, HereGood
<1> HIDE DEF p
<1>8. QED BY <1>2, <1>3, <1>4, <1>5, <1>6, <1>7, ApplyOK

-----------------------------------------------------------------------------
(***************************************************************************)
(* Sessions.                                                                *)
(***************************************************************************)

\* States that ask nothing of the rest of the session.
Free == States \ {"reminder_postpone_time", "reminder_create_interval", "view_note",
                  "browse_file", "append_to_note_input"}

LEMMA FreeStates ==
    /\ "idle" \in Free /\ "tasks_view" \in Free
    /\ "calendar_view" \in Free /\ "reminder_list" \in Free
    /\ "smart_confirm" \in Free /\ "reminder_create_schedule_type" \in Free
    /\ "reminder_create_task_confirm" \in Free /\ "reminder_postpone_date" \in Free
    /\ "find_note_results" \in Free /\ "browse_view" \in Free
    /\ "waiting_rating" \in Free /\ "waiting_new_task" \in Free
    /\ "ask_question" \in Free /\ "find_note_input" \in Free
    /\ "reminder_postpone_input" \in Free /\ "smart_input" \in Free
    /\ "reminder_create_nl" \in Free /\ "reminder_create_title" \in Free
    /\ "reminder_create_time" \in Free /\ "reminder_create_day" \in Free
    /\ "reminder_create_date" \in Free
BY DEF Free, States, Prompts, Silent

LEMMA InGood ==
    ASSUME NEW k, NEW u, Good(u, k), NEW st \in Free
    PROVE  /\ Good(In(u, st), k)
           /\ In(u, st).state = st /\ In(u, st).draft = u.draft /\ In(u, st).smart = u.smart
           /\ In(u, st).note = u.note /\ In(u, st).pend = u.pend
BY DEF In, Good, SessionOK, Sessions, Heard, Free

\* One field is set, in a state that asks nothing of it.
LEMMA FieldGood ==
    ASSUME NEW k, NEW u, Good(u, k)
    PROVE  /\ \A d \in Drafts : (d.title \in Texts => d.title <= k) =>
                  Good([u EXCEPT !.draft = d], k)
           /\ \A x \in [raw : Sources \cup {Nothing}, intent : Intents \cup {Nothing}] :
                  x.raw \notin spent /\ (x.raw \in Texts => x.raw <= k) =>
                  Good([u EXCEPT !.smart = x], k)
           /\ \A d \in Dates : Good([u EXCEPT !.date = d], k)
           /\ Good([u EXCEPT !.pend = Nothing], k)
           /\ u.state \in Free => \A n \in Notes \cup {Nothing} : Good([u EXCEPT !.note = n], k)
           /\ \A n \in Notes \cup {Nothing} : Good([u EXCEPT !.id = n], k)
           /\ \A f \in {{}, Notes} : Good([u EXCEPT !.found = f], k)
           /\ \A p \in {Root, Folder} : Good([u EXCEPT !.path = p], k)
<1>1. \A d \in Drafts : (d.title \in Texts => d.title <= k) => Good([u EXCEPT !.draft = d], k)
    BY DEF Good, SessionOK, Sessions, Heard
<1>2. \A x \in [raw : Sources \cup {Nothing}, intent : Intents \cup {Nothing}] :
          x.raw \notin spent /\ (x.raw \in Texts => x.raw <= k) => Good([u EXCEPT !.smart = x], k)
    BY DEF Good, SessionOK, Sessions, Heard
<1>3. \A d \in Dates : Good([u EXCEPT !.date = d], k)
    BY DEF Good, SessionOK, Sessions, Heard
<1>4. Good([u EXCEPT !.pend = Nothing], k)
    BY DEF Good, SessionOK, Sessions, Heard
<1>5. u.state \in Free => \A n \in Notes \cup {Nothing} : Good([u EXCEPT !.note = n], k)
    BY DEF Good, SessionOK, Sessions, Heard, Free
<1>6. \A n \in Notes \cup {Nothing} : Good([u EXCEPT !.id = n], k)
    BY DEF Good, SessionOK, Sessions, Heard
<1>7. \A f \in {{}, Notes} : Good([u EXCEPT !.found = f], k)
    BY DEF Good, SessionOK, Sessions, Heard
<1>8. \A p \in {Root, Folder} : Good([u EXCEPT !.path = p], k)
    BY DEF Good, SessionOK, Sessions, Heard
<1>9. QED BY <1>1, <1>2, <1>3, <1>4, <1>5, <1>6, <1>7, <1>8

LEMMA NothingKept ==
    ASSUME Inv
    PROVE  /\ NoSmart \in [raw : Sources \cup {Nothing}, intent : Intents \cup {Nothing}]
           /\ NoSmart.raw \notin spent /\ NoSmart.raw \notin Texts /\ NoSmart.raw = Nothing
           /\ NoDraft \in Drafts /\ NoDraft.title \notin Texts
BY NothingSpent DEF NoSmart, NoDraft, Drafts

\* Every outcome of a set is a Go.
LEMMA FetchOK ==
    ASSUME NEW k, NEW v, Good(v, k), NEW c
    PROVE  \A o \in Fetch(v, c) : OutcomeOK(o, k)
BY GoOK DEF Fetch

-----------------------------------------------------------------------------
(***************************************************************************)
(* Buttons of the menu, the day and the notes.                              *)
(***************************************************************************)
LEMMA MenuGood ==
    ASSUME Inv, NEW u, Good(u, texts)
    PROVE  /\ Good([In(u, "smart_input") EXCEPT !.smart = NoSmart], texts)
           /\ Good([In(u, "find_note_input") EXCEPT !.found = {}, !.note = Nothing, !.id = Nothing],
                   texts)
           /\ \A p \in {Root, Folder} : Good([In(u, "browse_view") EXCEPT !.path = p], texts)
           /\ Good([In(u, "browse_view") EXCEPT !.note = Nothing], texts)
           /\ Good([In(u, "find_note_results") EXCEPT !.note = Nothing, !.id = Nothing], texts)
<1>1. \A st \in Free : Good(In(u, st), texts) /\ In(u, st).state \in Free
    BY InGood
<1>2. Good([In(u, "smart_input") EXCEPT !.smart = NoSmart], texts)
    BY <1>1, FreeStates, NothingKept, FieldGood
<1>3. /\ \A p \in {Root, Folder} : Good([In(u, "browse_view") EXCEPT !.path = p], texts)
      /\ Good([In(u, "browse_view") EXCEPT !.note = Nothing], texts)
    BY <1>1, FreeStates, FieldGood
<1>4. ASSUME NEW v, Good(v, texts), v.state \in Free
      PROVE  /\ Good([v EXCEPT !.found = {}, !.note = Nothing, !.id = Nothing], texts)
             /\ Good([v EXCEPT !.note = Nothing, !.id = Nothing], texts)
    <2> DEFINE x == [v EXCEPT !.note = Nothing]
               y == [v EXCEPT !.found = {}]
               z == [y EXCEPT !.note = Nothing]
    <2>1. v \in Sessions
        BY <1>4 DEF Good, SessionOK
    <2>2. y.state = v.state
        BY <2>1 DEF Sessions
    <2>3. Good(x, texts) /\ Good(y, texts)
        BY <1>4, FieldGood
    <2>4. Good(z, texts)
        BY <1>4, <2>2, <2>3, FieldGood
    <2>5. Good([x EXCEPT !.id = Nothing], texts) /\ Good([z EXCEPT !.id = Nothing], texts)
        BY <2>3, <2>4, FieldGood
    <2>6. QED BY <2>5
<1>5. QED BY <1>1, <1>2, <1>3, <1>4, FreeStates

\* A folder is opened, from wherever the session is.
LEMMA BrowseFolderOK ==
    ASSUME Inv, NEW u, Good(u, texts)
    PROVE  /\ \A p \in {Root, Folder} :
                 \A o \in showBrowseFolder([In(u, "browse_view") EXCEPT !.path = p]) :
                     OutcomeOK(o, texts)
           /\ \A o \in showBrowseFolder([In(u, "browse_view") EXCEPT !.note = Nothing]) :
                     OutcomeOK(o, texts)
<1>1. ASSUME NEW v, Good(v, texts)
      PROVE  \A o \in showBrowseFolder(v) : OutcomeOK(o, texts)
    BY <1>1, FetchOK DEF showBrowseFolder
<1>2. QED BY <1>1, MenuGood

LEMMA MenuOK ==
    ASSUME Inv, UNCHANGED <<texts, job>>, NEW m \in Msgs, handleMenuAction(m)
    PROVE  Moves
<1> DEFINE u == Session(m)
<1>1. Good(u, texts)
    BY SessionGood
<1> HIDE DEF u
<1>2. \A st \in Free : Good(In(u, st), texts)
    BY <1>1, InGood
<1>3. /\ \A o \in {Go(In(u, "waiting_rating"), Plain("rating"))} : OutcomeOK(o, texts)
      /\ \A o \in showMainMenu(In(u, "idle")) : OutcomeOK(o, texts)
      /\ \A o \in showTasks(In(u, "tasks_view")) : OutcomeOK(o, texts)
      /\ \A o \in showNote(u) : OutcomeOK(o, texts)
      /\ \A o \in showCalendar(In(u, "calendar_view")) : OutcomeOK(o, texts)
      /\ \A o \in HandleMenuNotifications(u) : OutcomeOK(o, texts)
    BY <1>1, <1>2, FreeStates, GoOK, FetchOK
       DEF showMainMenu, showTasks, showNote, showCalendar, HandleMenuNotifications
<1>4. /\ \A o \in HandleSmartStart(u) : OutcomeOK(o, texts)
      /\ \A o \in HandleMenuFind(u) : OutcomeOK(o, texts)
      /\ \A o \in HandleMenuAsk(u) : OutcomeOK(o, texts)
    <2>1. Good([In(u, "smart_input") EXCEPT !.smart = NoSmart], texts)
        BY <1>1, MenuGood
    <2>2. Good([In(u, "find_note_input") EXCEPT !.found = {}, !.note = Nothing, !.id = Nothing],
               texts)
        BY <1>1, MenuGood
    <2>3. \A o \in HandleSmartStart(u) : OutcomeOK(o, texts)
        BY <2>1, GoOK DEF HandleSmartStart
    <2>4. \A o \in HandleMenuFind(u) : OutcomeOK(o, texts)
        BY <2>2, GoOK DEF HandleMenuFind
    <2>5. \A o \in HandleMenuAsk(u) : OutcomeOK(o, texts)
        BY <1>2, FreeStates, GoOK DEF HandleMenuAsk
    <2>6. QED BY <2>3, <2>4, <2>5
<1>5. \A o \in HandleMenuBrowse(u) : OutcomeOK(o, texts)
    BY <1>1, BrowseFolderOK DEF HandleMenuBrowse
<1>6. QED BY <1>3, <1>4, <1>5, ClickOK DEF handleMenuAction, u

LEMMA TaskOK ==
    ASSUME Inv, UNCHANGED <<texts, job>>, NEW m \in Msgs, handleTaskAction(m)
    PROVE  Moves
<1> DEFINE u == Session(m)
<1>1. Good(u, texts)
    BY SessionGood
<1> HIDE DEF u
<1>2. \A st \in Free : Good(In(u, st), texts)
    BY <1>1, InGood
<1>3. \A o \in {Go(u, Nothing)} \cup
              {Outcome(u, c, Effect("toggle", Nothing, u.date)) : c \in {Plain("tasks"), Dead}} :
          OutcomeOK(o, texts)
    BY <1>1, GoOK, CallOK
<1>4. /\ \A o \in {Go(In(u, "waiting_new_task"), Plain("task_add"))} : OutcomeOK(o, texts)
      /\ \A o \in showMainMenu(In(u, "idle")) : OutcomeOK(o, texts)
      /\ \A o \in showTasks(In(u, "tasks_view")) : OutcomeOK(o, texts)
    BY <1>2, FreeStates, GoOK, FetchOK DEF showMainMenu, showTasks
<1>5. QED BY <1>3, <1>4, ClickOK DEF handleTaskAction, u

LEMMA CalOK ==
    ASSUME Inv, UNCHANGED <<texts, job>>, NEW m \in Msgs, handleCalAction(m)
    PROVE  Moves
<1> DEFINE u == Session(m)
<1>1. Good(u, texts)
    BY SessionGood
<1> HIDE DEF u
<1>2. \A st \in Free : Good(In(u, st), texts)
    BY <1>1, InGood
<1>3. ASSUME NEW d \in Dates
      PROVE  \A o \in {Partly(Go([In(u, "idle") EXCEPT !.date = d], Menu),
                             {In(u, "idle"), [u EXCEPT !.date = d]})} : OutcomeOK(o, texts)
    <2> DEFINE v == [In(u, "idle") EXCEPT !.date = d]
               w == [u EXCEPT !.date = d]
    <2>1. Good(In(u, "idle"), texts) /\ Good(v, texts) /\ Good(w, texts)
        BY <1>1, <1>2, FreeStates, FieldGood
    <2> HIDE DEF v, w
    <2>2. OutcomeOK(Go(v, Menu), texts)
        BY <2>1, GoOK
    <2>3. \A x \in {In(u, "idle"), w} : Good(x, texts)
        BY <2>1
    <2>4. OutcomeOK(Partly(Go(v, Menu), {In(u, "idle"), w}), texts)
        BY <2>2, <2>3, PartlyOK
    <2>5. QED BY <2>4 DEF v, w
<1>4. \A o \in showCalendar([u EXCEPT !.date = Today]) : OutcomeOK(o, texts)
    <2>1. Good([u EXCEPT !.date = Today], texts)
        BY <1>1, FieldGood, ConstantsAssumption
    <2>2. QED BY <2>1, FetchOK DEF showCalendar
<1>5. \A o \in showMainMenu(In(u, "idle")) : OutcomeOK(o, texts)
    BY <1>2, FreeStates, GoOK DEF showMainMenu
<1>6. QED BY <1>3, <1>4, <1>5, ClickOK, PressOK DEF handleCalAction, u

\* The button asks for the text that goes to the note that is open.
LEMMA AppendActionOK ==
    ASSUME Inv, NEW u, Good(u, texts), u.note = s.note
    PROVE  \A o \in handleNoteAppendAction(u) : OutcomeOK(o, texts)
<1>1. CASE u.note = Nothing
    BY <1>1, GoOK DEF handleNoteAppendAction
<1>2. CASE u.note # Nothing
    <2> DEFINE back == IF u.state = "append_to_note_input" THEN u.ret ELSE u.state
               v == [In(u, "append_to_note_input") EXCEPT !.ret = back]
               e == Effect("ask_append", Nothing, u.note)
               o == Outcome(v, Dead, e)
    <2>1. back \in States /\ "append_to_note_input" \in States /\ u.note \in Notes
        BY <1>2 DEF Good, SessionOK, Sessions, States, Prompts
    <2> HIDE DEF back
    <2>2. /\ SessionOK(v) /\ Heard(v, texts) /\ v.note = u.note /\ v.pend = u.pend
          /\ v.smart = u.smart /\ v.state = "append_to_note_input"
        BY <1>2, <2>1 DEF Good, SessionOK, Sessions, Heard, In
    <2>3. o = [to |-> v, show |-> Dead, at |-> "here", did |-> e, part |-> {}]
        BY DEF Outcome
    <2>4. o.to = v /\ o.show = Dead /\ o.at = "here" /\ o.did = e /\ o.part = {}
        BY <2>3
    <2>5. e.what = "ask_append" /\ e.dest = u.note /\ e.by = Nothing
        BY EffectIs
    <2>6. EffectOK(e)
        BY <2>1, EffectIs DEF EffectOK
    <2> HIDE DEF v, e, o
    <2>7. BaseOK(o, texts)
        BY <2>2, <2>3, <2>4, <2>5, <2>6 DEF BaseOK, Good
    <2>8. ByOK(o, texts)
        BY <2>4, <2>5, ByNobody
    <2>9. handleNoteAppendAction(u) = {o}
        BY <1>2 DEF handleNoteAppendAction, o, v, e, back
    <2>10. QED BY <2>7, <2>8, <2>9 DEF OutcomeOK
<1>3. QED BY <1>1, <1>2

LEMMA NoteOK ==
    ASSUME Inv, UNCHANGED <<texts, job>>, NEW m \in Msgs, handleNoteAction(m)
    PROVE  Moves
<1> DEFINE u == Session(m)
<1>1. Good(u, texts)
    BY SessionGood
<1> HIDE DEF u
<1>2. \A o \in showMainMenu(In(u, "idle")) : OutcomeOK(o, texts)
    BY <1>1, InGood, FreeStates, GoOK DEF showMainMenu
<1>3. \A o \in handleNoteAppendAction(u) : OutcomeOK(o, texts)
    <2>1. u.note = s.note
        BY DEF u, Session, Inv, SessionOK, Sessions
    <2>2. QED BY <1>1, <2>1, AppendActionOK
<1>4. QED BY <1>2, <1>3, ClickOK DEF handleNoteAction, u

\* A note is opened, and is the one that a text is added to.
LEMMA OpenGood ==
    ASSUME NEW u, Good(u, texts), NEW f \in Notes
    PROVE  /\ Good([In(u, "view_note") EXCEPT !.note = f, !.id = f], texts)
           /\ Good([In(u, "browse_file") EXCEPT !.note = f, !.id = Nothing], texts)
<1>1. f # Nothing /\ "view_note" \in States /\ "browse_file" \in States
    BY ConstantsAssumption DEF States, Silent
<1>2. ASSUME NEW st \in {"view_note", "browse_file"}, NEW i \in Notes \cup {Nothing}
      PROVE  Good([In(u, st) EXCEPT !.note = f, !.id = i], texts)
    <2> DEFINE v == [In(u, st) EXCEPT !.note = f, !.id = i]
    <2>1. st \in States /\ st \notin {"reminder_postpone_time", "reminder_create_interval",
                                    "append_to_note_input"}
        BY <1>1
    <2>2. v = [u EXCEPT !.state = st, !.note = f, !.id = i]
        BY DEF In, Good, SessionOK, Sessions
    <2>3. /\ v.state = st /\ v.note = f
          /\ v.draft = u.draft /\ v.pend = u.pend /\ v.smart = u.smart
        BY <2>2 DEF Good, SessionOK, Sessions
    <2>4. v \in Sessions
        BY <2>1, <2>2 DEF Good, SessionOK, Sessions
    <2> HIDE DEF v
    <2>5. Good(v, texts)
        BY <1>1, <2>1, <2>3, <2>4 DEF Good, SessionOK, Heard
    <2>6. QED BY <2>5 DEF v
<1>3. QED BY <1>2

LEMMA FindOK ==
    ASSUME Inv, UNCHANGED <<texts, job>>, NEW m \in Msgs, handleFindAction(m)
    PROVE  Moves
<1> DEFINE u == Session(m)
<1>1. Good(u, texts)
    BY SessionGood
<1> HIDE DEF u
<1>2. ASSUME NEW f \in Notes
      PROVE  \A o \in openFoundNote(u, f) : OutcomeOK(o, texts)
    <2>1. Good([In(u, "view_note") EXCEPT !.note = f, !.id = f], texts)
        BY <1>1, OpenGood
    <2>2. OutcomeOK(Go([In(u, "view_note") EXCEPT !.note = f, !.id = f], Screen("view", u.found)),
                    texts)
        BY <2>1, GoOK
    <2>3. QED BY <1>1, <2>2, GoOK DEF openFoundNote
<1>3. \A o \in (IF u.id = Nothing THEN {Go(u, Dead)} ELSE openFoundNote(u, u.id)) :
          OutcomeOK(o, texts)
    <2>1. u.id \in Notes \cup {Nothing}
        BY <1>1 DEF Good, SessionOK, Sessions
    <2>2. QED BY <1>1, <1>2, <2>1, GoOK
<1>4. \A o \in showFindResults([In(u, "find_note_results") EXCEPT !.note = Nothing, !.id = Nothing]) :
          OutcomeOK(o, texts)
    <2>1. Good([In(u, "find_note_results") EXCEPT !.note = Nothing, !.id = Nothing], texts)
        BY <1>1, MenuGood
    <2>2. QED BY <2>1, GoOK DEF showFindResults
<1>5. \A o \in {Go(In(u, "find_note_input"), Dead)} : OutcomeOK(o, texts)
    BY <1>1, InGood, FreeStates, GoOK
<1>6. QED BY <1>2, <1>3, <1>4, <1>5, ClickOK, PressOK DEF handleFindAction, u

LEMMA BrowseOK ==
    ASSUME Inv, UNCHANGED <<texts, job>>, NEW m \in Msgs, handleBrowseAction(m)
    PROVE  Moves
<1> DEFINE u == Session(m)
<1>1. Good(u, texts)
    BY SessionGood
<1> HIDE DEF u
<1>2. \A o \in HandleMenuBrowse(u) : OutcomeOK(o, texts)
    BY <1>1, BrowseFolderOK DEF HandleMenuBrowse
<1>3. OutcomeOK(Go(u, Dead), texts)
    BY <1>1, GoOK
<1>4. ASSUME NEW f \in Notes
      PROVE  OutcomeOK(showBrowseFile(u, f), texts)
    BY <1>1, OpenGood, GoOK DEF showBrowseFile
<1>5. ASSUME NEW i \in 1..2
      PROVE  \A o \in handleBrowseOpenByIndex(u, i) : OutcomeOK(o, texts)
    <2>1. /\ \A o \in showBrowseFolder([In(u, "browse_view") EXCEPT !.path = Folder]) :
                 OutcomeOK(o, texts)
          /\ \A o \in {showBrowseFile(u, RootNote)} : OutcomeOK(o, texts)
          /\ \A o \in {showBrowseFile(u, FolderNote)} : OutcomeOK(o, texts)
        BY <1>1, <1>4, BrowseFolderOK DEF Notes
    <2>2. QED BY <1>3, <2>1 DEF handleBrowseOpenByIndex
<1>6. \A o \in {Go(u, Dead)} \cup (IF u.note = Nothing THEN {} ELSE {showBrowseFile(u, u.note)}) :
          OutcomeOK(o, texts)
    <2>1. u.note \in Notes \cup {Nothing}
        BY <1>1 DEF Good, SessionOK, Sessions
    <2>2. QED BY <1>3, <1>4, <2>1
<1>7. \A o \in showBrowseFolder([In(u, "browse_view") EXCEPT !.note = Nothing]) :
          OutcomeOK(o, texts)
    BY <1>1, BrowseFolderOK
<1>8. QED BY <1>2, <1>5, <1>6, <1>7, ClickOK, PressOK DEF handleBrowseAction, u

-----------------------------------------------------------------------------
(***************************************************************************)
(* Reminders.                                                               *)
(***************************************************************************)

\* What a write may be reported as.
LEMMA WriteIs ==
    ASSUME NEW x, NEW b, NEW w, NEW t, NEW d, NEW v, NEW c
    PROVE  \A o \in Write(Outcome(x, b, Effect(w, t, d)), Go(v, c)) :
              /\ o.did.by = Nothing /\ o.did.what \in {w, "none"} /\ o.did.text \in {t, Nothing}
              /\ o.did.what = w => (o.did.dest = d /\ o.did.text = t) \/ o.did = NoEffect
              /\ o.did.told => o.to = x \/ o.did = NoEffect
              /\ o.to \in {x, v}
<1> DEFINE a == Outcome(x, b, Effect(w, t, d))
           g == Go(v, c)
           e == [a.did EXCEPT !.told = FALSE]
           h == [g EXCEPT !.did = e]
<1>1. a.did = Effect(w, t, d) /\ a.to = x
    BY DEF Outcome
<1>2. g = [to |-> v, show |-> c, at |-> "here", did |-> NoEffect, part |-> {}]
    BY DEF Go, Outcome
<1>3. e.what = w /\ e.text = t /\ e.dest = d /\ e.by = Nothing /\ ~e.told
    BY <1>1, EffectIs
<1>4. h.did = e /\ h.to = v
    BY <1>2
<1>5. ASSUME NEW o \in Write(a, g)
      PROVE  o = a \/ o = g \/ o = h
    BY DEF Write
<1> HIDE DEF a, g, e, h
<1>6. g.did = NoEffect /\ g.to = v
    BY <1>2
<1>7. QED BY <1>1, <1>3, <1>4, <1>5, <1>6, EffectIs, NoEffectIs DEF a, g

LEMMA FinalizeOK ==
    ASSUME NEW k, NEW u, Good(u, k)
    PROVE  \A o \in finalizeReminder(u) :
              /\ OutcomeOK(o, k) /\ Good(o.to, k)
              /\ o.did.by = Nothing /\ ~Writes(o.did) /\ o.did.text \in {u.draft.title, Nothing}
              /\ o.did.what \in {"create", "none"}
              /\ o.did # NoEffect => o.to.state = "reminder_list" \/ ~o.did.told
<1> DEFINE listed == In(u, "reminder_list")
           failed == Go(u, Dead)
           done == Outcome(listed, List, Effect("create", u.draft.title, u.draft.type))
           retry == Go(In(u, "reminder_create_time"), Cancel)
           P(o) == /\ OutcomeOK(o, k) /\ Good(o.to, k)
                   /\ o.did.by = Nothing /\ o.did.what \in {"create", "none"}
                   /\ o.did.text \in {u.draft.title, Nothing}
                   /\ o.did # NoEffect => o.to.state = "reminder_list" \/ ~o.did.told
<1>1. \A st \in Free : Good(In(u, st), k)
    BY InGood
<1>2. Good(listed, k) /\ listed.state = "reminder_list"
    BY FreeStates, InGood
<1>3. P(failed) /\ P(Go(listed, Dead)) /\ P(retry)
    BY <1>1, <1>2, FreeStates, GoOK, NoEffectIs
<1>4. OutcomeOK(done, k) /\ done.did = Effect("create", u.draft.title, u.draft.type)
    BY <1>2, CallOK
<1>5. \A o \in Write(done, failed) : OutcomeOK(o, k)
    BY <1>4, WriteOK, EffectIs
<1>6. \A o \in Write(done, failed) : P(o)
    BY <1>2, <1>5, WriteIs
<1>7. \A o : P(o) => P(Last(o))
    BY PlaceOK
<1>8. \A o \in finalizeReminder(u) : P(o)
    <2> DEFINE all == Write(done, failed) \cup {retry}
               none == {Go(listed, Dead), failed}
    <2>1. /\ \A o \in all : P(o)
          /\ \A o \in none : P(o)
        BY <1>3, <1>6
    <2>2. \A o \in finalizeReminder(u) : \E q \in all \cup none : o = Last(q)
        BY DEF finalizeReminder
    <2> HIDE DEF all, none, P
    <2>3. QED BY <1>7, <2>1, <2>2
<1>9. QED BY <1>8 DEF Writes

\* The draft of the wizard grows.
LEMMA WizardGood ==
    ASSUME NEW k, NEW u, Good(u, k)
    PROVE  /\ \A t \in Kinds : Good([u EXCEPT !.draft.type = t], k)
           /\ \A g \in SUBSET Kinds : Good([u EXCEPT !.draft.given = @ \cup g], k)
           /\ \A st \in Free : Good([In(u, st) EXCEPT !.draft = NoDraft], k)
<1>1. u.draft \in Drafts /\ (u.draft.title \in Texts => u.draft.title <= k)
    BY DEF Good, SessionOK, Sessions, Heard
<1>2. ASSUME NEW t \in Kinds
      PROVE  Good([u EXCEPT !.draft.type = t], k)
    <2> DEFINE d == [u.draft EXCEPT !.type = t]
    <2>1. d \in Drafts /\ d.title = u.draft.title
        BY <1>1 DEF Drafts
    <2>2. [u EXCEPT !.draft.type = t] = [u EXCEPT !.draft = d]
        OBVIOUS
    <2> HIDE DEF d
    <2>3. QED BY <1>1, <2>1, <2>2, FieldGood
<1>3. ASSUME NEW g \in SUBSET Kinds
      PROVE  Good([u EXCEPT !.draft.given = @ \cup g], k)
    <2> DEFINE d == [u.draft EXCEPT !.given = @ \cup g]
    <2>1. d \in Drafts /\ d.title = u.draft.title
        BY <1>1 DEF Drafts
    <2>2. [u EXCEPT !.draft.given = @ \cup g] = [u EXCEPT !.draft = d]
        OBVIOUS
    <2> HIDE DEF d
    <2>3. QED BY <1>1, <2>1, <2>2, FieldGood
<1>4. ASSUME NEW st \in Free
      PROVE  Good([In(u, st) EXCEPT !.draft = NoDraft], k)
    <2>1. NoDraft \in Drafts /\ NoDraft.title \notin Texts
        BY ConstantsAssumption DEF NoDraft, Drafts, Sources
    <2>2. QED BY <2>1, InGood, FieldGood
<1>5. QED BY <1>2, <1>3, <1>4

\* The user is asked about a reminder, which the session notes.
LEMMA AskPostponeOK ==
    ASSUME NEW u, Good(u, texts), NEW r \in Reminders, NEW c,
           NEW st \in {"reminder_postpone_date", "reminder_postpone_input"}
    PROVE  OutcomeOK(Outcome([In(u, st) EXCEPT !.pend = r], c, Effect("ask_postpone", Nothing, r)),
                     texts)
<1> DEFINE v == [In(u, st) EXCEPT !.pend = r]
           e == Effect("ask_postpone", Nothing, r)
           o == Outcome(v, c, e)
<1>1. st \in States /\ st \notin {"reminder_postpone_time", "reminder_create_interval", "view_note",
                                 "browse_file", "append_to_note_input"}
    BY DEF States, Prompts, Silent
<1>2. v = [u EXCEPT !.state = st, !.pend = r]
    BY DEF In, Good, SessionOK, Sessions
<1>3. /\ SessionOK(v) /\ Heard(v, texts) /\ v.pend = r /\ v.smart = u.smart /\ v.state = st
    BY <1>1, <1>2 DEF Good, SessionOK, Sessions, Heard
<1>4. o = [to |-> v, show |-> c, at |-> "here", did |-> e, part |-> {}]
    BY DEF Outcome
<1>5. o.to = v /\ o.show = c /\ o.at = "here" /\ o.did = e /\ o.part = {}
    BY <1>4
<1>6. e.what = "ask_postpone" /\ e.dest = r /\ e.by = Nothing
    BY EffectIs
<1>7. EffectOK(e)
    BY EffectIs DEF EffectOK
<1> HIDE DEF v, e, o
<1>8. BaseOK(o, texts)
    BY <1>1, <1>3, <1>4, <1>5, <1>6, <1>7 DEF BaseOK, Good
<1>9. ByOK(o, texts)
    BY <1>5, <1>6, ByNobody
<1>10. QED BY <1>8, <1>9 DEF OutcomeOK, o, v, e

\* The wizard goes on.
LEMMA AdvanceOK ==
    ASSUME NEW k, NEW u, Good(u, k), NEW v, Good(v, k), NEW st \in States,
           Good(In(u, st), k), Good(In(v, st), k), NEW c
    PROVE  OutcomeOK(Advance(u, v, st, c), k)
<1>1. OutcomeOK(Go(In(v, st), c), k)
    BY GoOK
<1>2. \A w \in {v, In(u, st)} : Good(w, k)
    OBVIOUS
<1>3. QED BY <1>1, <1>2, PartlyOK DEF Advance

LEMMA TaskConfirmOK ==
    ASSUME NEW k, NEW u, Good(u, k), NEW v, Good(v, k)
    PROVE  /\ OutcomeOK(toTaskConfirm(u, v), k)
           /\ OutcomeOK(Last(toTaskConfirm(u, v)), k)
<1>1. OutcomeOK(toTaskConfirm(u, v), k)
    BY InGood, FreeStates, AdvanceOK DEF toTaskConfirm, Free
<1>2. QED BY <1>1, PlaceOK

LEMMA TypeSelectOK ==
    ASSUME NEW u, Good(u, texts), NEW type \in Kinds
    PROVE  \A o \in HandleReminderTypeSelect(u, type) : OutcomeOK(o, texts)
<1> DEFINE v == [u EXCEPT !.draft.type = type]
<1>1. Good(v, texts)
    BY WizardGood
<1> HIDE DEF v
<1>2. \A st \in Free : Good(In(v, st), texts) /\ Good(In(u, st), texts)
    BY <1>1, InGood
<1>3. ASSUME type = "custom_days", NEW w, Good(w, texts)
      PROVE  Good(In(w, "reminder_create_interval"), texts)
    BY <1>3 DEF Good, SessionOK, Sessions, Heard, In, States, Prompts
<1>4. OutcomeOK(toTaskConfirm(u, v), texts)
    BY <1>1, TaskConfirmOK
<1>5. /\ OutcomeOK(Advance(u, v, "reminder_create_day", Cancel), texts)
      /\ OutcomeOK(Advance(u, v, "reminder_create_date", Screen("picker", type)), texts)
    BY <1>1, <1>2, FreeStates, AdvanceOK DEF Free
<1>6. type = "custom_days" =>
          OutcomeOK(Advance(u, v, "reminder_create_interval", Cancel), texts)
    BY <1>1, <1>3, AdvanceOK DEF States, Prompts
<1>7. QED BY <1>4, <1>5, <1>6 DEF HandleReminderTypeSelect, v

LEMMA CalSelectOK ==
    ASSUME NEW u, Good(u, texts), NEW for \in Kinds \cup {"pp"}
    PROVE  \A o \in HandleReminderCalSelect(u, for) : OutcomeOK(o, texts)
<1>1. CASE for = "pp"
    <2> DEFINE v == [In(u, "reminder_postpone_time") EXCEPT !.picked = TRUE]
    <2>1. v = [u EXCEPT !.state = "reminder_postpone_time", !.picked = TRUE]
        BY DEF In, Good, SessionOK, Sessions
    <2>2. "reminder_postpone_time" \in States
        BY DEF States, Prompts
    <2>3. /\ v.state = "reminder_postpone_time" /\ v.picked
          /\ v.draft = u.draft /\ v.pend = u.pend /\ v.smart = u.smart
        BY <2>1 DEF Good, SessionOK, Sessions
    <2>4. v \in Sessions
        BY <2>1, <2>2 DEF Good, SessionOK, Sessions
    <2>5. Good(v, texts)
        BY <2>3, <2>4 DEF Good, SessionOK, Heard
    <2> HIDE DEF v
    <2>6. OutcomeOK(Go(v, Cancel), texts)
        BY <2>5, GoOK
    <2>7. QED BY <1>1, <2>6 DEF HandleReminderCalSelect, v
<1>2. CASE for # "pp"
    <2>1. Good([u EXCEPT !.draft.given = @ \cup {for}], texts)
        BY <1>2, WizardGood
    <2>2. QED BY <1>2, <2>1, TaskConfirmOK DEF HandleReminderCalSelect
<1>3. QED BY <1>1, <1>2

LEMMA BackGood ==
    ASSUME Inv, NEW u, Good(u, texts)
    PROVE  Good([In(u, "idle") EXCEPT !.draft = NoDraft, !.pend = Nothing], texts)
<1> DEFINE v == [In(u, "idle") EXCEPT !.draft = NoDraft]
<1>1. Good(v, texts)
    BY WizardGood, FreeStates
<1>2. Good([v EXCEPT !.pend = Nothing], texts)
    BY <1>1, FieldGood
<1>3. QED BY <1>2

LEMMA FiredOK ==
    ASSUME Inv, NEW u, Good(u, texts), NEW r \in Reminders
    PROVE  /\ \A o \in HandleReminderDelete(u, r) : OutcomeOK(o, texts)
           /\ \A o \in HandleReminderDone(u, r) : OutcomeOK(o, texts)
           /\ \A o \in {Go(u, Acknowledged(r))} : OutcomeOK(o, texts)
           /\ \A o \in HandleReminderPostponeInput(u, r) : OutcomeOK(o, texts)
           /\ \A o \in HandleReminderPostponeDate(u, r) : OutcomeOK(o, texts)
<1>1. \A o \in HandleReminderDelete(u, r) : OutcomeOK(o, texts)
    <2> DEFINE a == Outcome(In(u, "reminder_list"), List, Effect("delete", Nothing, r))
    <2>1. Good(In(u, "reminder_list"), texts) /\ In(u, "reminder_list").state = "reminder_list"
        BY InGood, FreeStates
    <2>2. OutcomeOK(a, texts) /\ a.did = Effect("delete", Nothing, r)
        BY <2>1, CallOK
    <2> HIDE DEF a
    <2>3. \A o \in Write(a, Go(u, Dead)) : OutcomeOK(o, texts)
        BY <2>2, WriteOK, EffectIs
    <2>4. QED BY <2>3 DEF HandleReminderDelete, a
<1>2. \A o \in HandleReminderDone(u, r) : OutcomeOK(o, texts)
    BY GoOK, CallOK DEF HandleReminderDone
<1>3. \A o \in {Go(u, Acknowledged(r))} : OutcomeOK(o, texts)
    BY GoOK
<1>4. \A o \in HandleReminderPostponeInput(u, r) : OutcomeOK(o, texts)
    BY AskPostponeOK DEF HandleReminderPostponeInput
<1>5. \A o \in HandleReminderPostponeDate(u, r) : OutcomeOK(o, texts)
    BY AskPostponeOK DEF HandleReminderPostponeDate
<1>6. QED BY <1>1, <1>2, <1>3, <1>4, <1>5

LEMMA ReminderOK ==
    ASSUME Inv, UNCHANGED <<texts, job>>, NEW m \in Msgs, handleReminderAction(m)
    PROVE  Moves
<1> DEFINE u == Session(m)
<1>1. Good(u, texts)
    BY SessionGood
<1> HIDE DEF u
<1>2. /\ \A o \in HandleReminderCreate(u) : OutcomeOK(o, texts)
      /\ \A o \in HandleReminderCreateNL(u) : OutcomeOK(o, texts)
    <2>1. /\ Good([In(u, "reminder_create_title") EXCEPT !.draft = NoDraft], texts)
          /\ Good([In(u, "reminder_create_nl") EXCEPT !.draft = NoDraft], texts)
        BY <1>1, WizardGood, FreeStates
    <2>2. QED BY <2>1, GoOK DEF HandleReminderCreate, HandleReminderCreateNL
<1>3. \A o \in finalizeReminder(u) : OutcomeOK(o, texts)
    BY <1>1, FinalizeOK
<1>4. \A o \in {Go(In(u, "reminder_create_time"), Cancel)} : OutcomeOK(o, texts)
    BY <1>1, InGood, FreeStates, GoOK
<1>5. \A o \in HandleReminderBack(u) : OutcomeOK(o, texts)
    <2>1. Good([In(u, "idle") EXCEPT !.draft = NoDraft, !.pend = Nothing], texts)
        BY <1>1, BackGood
    <2>2. QED BY <2>1, GoOK DEF HandleReminderBack
<1>6. \A o \in HandleReminderCancel(u) : OutcomeOK(o, texts)
    BY <1>1, InGood, FreeStates, GoOK DEF HandleReminderCancel
<1>7. /\ \A t \in Kinds : \A o \in HandleReminderTypeSelect(u, t) : OutcomeOK(o, texts)
      /\ \A c \in Kinds \cup {"pp"} : \A o \in HandleReminderCalSelect(u, c) : OutcomeOK(o, texts)
    BY <1>1, TypeSelectOK, CalSelectOK
<1>8. \A r \in Reminders :
          /\ \A o \in HandleReminderDelete(u, r) : OutcomeOK(o, texts)
          /\ \A o \in HandleReminderDone(u, r) : OutcomeOK(o, texts)
          /\ \A o \in {Go(u, Acknowledged(r))} : OutcomeOK(o, texts)
          /\ \A o \in HandleReminderPostponeInput(u, r) : OutcomeOK(o, texts)
          /\ \A o \in HandleReminderPostponeDate(u, r) : OutcomeOK(o, texts)
    BY <1>1, FiredOK
<1>9. CASE \/ Click(m, "reminder:create", HandleReminderCreate(u))
           \/ Click(m, "reminder:create_nl", HandleReminderCreateNL(u))
           \/ Click(m, "reminder:nl_confirm", finalizeReminder(u))
           \/ Click(m, "reminder:task_confirm", {Go(In(u, "reminder_create_time"), Cancel)})
           \/ Click(m, "reminder:back", HandleReminderBack(u))
           \/ Click(m, "reminder:cancel", HandleReminderCancel(u))
    BY <1>2, <1>3, <1>4, <1>5, <1>6, <1>9, ClickOK
<1>10. CASE \/ \E t \in Kinds : Press(m, "reminder:type", t, HandleReminderTypeSelect(u, t))
            \/ \E c \in Kinds \cup {"pp"} :
                  Press(m, "reminder:cal:select", c, HandleReminderCalSelect(u, c))
    BY <1>7, <1>10, PressOK
<1>11. CASE \E r \in Reminders :
              \/ Press(m, "reminder:delete", r, HandleReminderDelete(u, r))
              \/ Press(m, "reminder:done", r, HandleReminderDone(u, r))
              \/ Press(m, "reminder:reject", r, {Go(u, Acknowledged(r))})
              \/ Press(m, "reminder:postpone_input", r, HandleReminderPostponeInput(u, r))
              \/ Press(m, "reminder:postpone_date", r, HandleReminderPostponeDate(u, r))
    BY <1>8, <1>11, PressOK
<1>12. QED BY <1>9, <1>10, <1>11 DEF handleReminderAction, u

-----------------------------------------------------------------------------
(***************************************************************************)
(* Previews of typed texts.                                                 *)
(***************************************************************************)

\* The draft is filled from a text that was heard.
LEMMA ParsedOK ==
    ASSUME NEW k, NEW t \in Sources \cup {Nothing}, t \in Texts => t <= k,
           NEW d \in Parsed(t)
    PROVE  d \in Drafts /\ d.title = t /\ (d.title \in Texts => d.title <= k)
BY DEF Parsed, Drafts

LEMMA NLInputOK ==
    ASSUME NEW k, NEW u, Good(u, k), NEW t \in Sources \cup {Nothing}, t \in Texts => t <= k
    PROVE  \A o \in handleReminderNLInput(u, t) : OutcomeOK(o, k) /\ o.did = NoEffect
<1>1. /\ OutcomeOK(Go(In(u, "reminder_list"), Cancel), k)
      /\ Go(In(u, "reminder_list"), Cancel).did = NoEffect
    <2>1. Good(In(u, "reminder_list"), k)
        BY InGood, FreeStates
    <2>2. QED BY <2>1, GoOK
<1>2. ASSUME NEW d \in Parsed(t)
      PROVE  /\ OutcomeOK(Go([u EXCEPT !.draft = d], Plain("nl_confirm")), k)
             /\ Go([u EXCEPT !.draft = d], Plain("nl_confirm")).did = NoEffect
    <2>1. Good([u EXCEPT !.draft = d], k)
        BY ParsedOK, FieldGood
    <2>2. QED BY <2>1, GoOK
<1> DEFINE failed == Go(In(u, "reminder_list"), Cancel)
           found(d) == Go([u EXCEPT !.draft = d], Plain("nl_confirm"))
           silent == Go(u, Nothing)
           all == {silent, failed} \cup {found(d) : d \in Parsed(t)}
<1>3. handleReminderNLInput(u, t) = {New(o) : o \in all}
    BY DEF handleReminderNLInput
<1>4. /\ OutcomeOK(failed, k) /\ failed.did = NoEffect
      /\ OutcomeOK(silent, k) /\ silent.did = NoEffect
    BY <1>1, GoOK
<1>5. \A d \in Parsed(t) : OutcomeOK(found(d), k) /\ found(d).did = NoEffect
    BY <1>2
<1> HIDE DEF failed, found, silent
<1>6. \A o \in all : OutcomeOK(o, k) /\ o.did = NoEffect
    BY <1>4, <1>5
<1> HIDE DEF all
<1>7. QED BY <1>3, <1>6, PlaceOK

\* The text of a preview has not been reported on.
LEMMA HeardGood ==
    ASSUME NEW k, NEW u, Good(u, k), NEW t \in Sources, t \in Texts => t <= k, t \notin spent,
           NEW i \in Intents, NEW st \in Free
    PROVE  Good([In(u, st) EXCEPT !.smart = [raw |-> t, intent |-> i]], k)
<1> DEFINE x == [raw |-> t, intent |-> i]
<1>1. x \in [raw : Sources \cup {Nothing}, intent : Intents \cup {Nothing}] /\ x.raw = t
    OBVIOUS
<1> HIDE DEF x
<1>2. QED BY <1>1, InGood, FieldGood DEF x

LEMMA SmartInputOK ==
    ASSUME Inv, NEW k, NEW u, Good(u, k), NEW t \in Texts, t <= k, t \notin spent
    PROVE  \A o \in handleSmartInput(u, t) : OutcomeOK(o, k)
<1> DEFINE heard(i) == [In(u, "smart_confirm") EXCEPT !.smart = [raw |-> t, intent |-> i]]
<1>1. \A i \in Intents : Good(heard(i), k)
    BY HeardGood, FreeStates DEF Sources
<1>2. OutcomeOK(Go(In(u, "idle"), Nothing), k)
    BY InGood, FreeStates, GoOK
<1>3. ASSUME NEW d \in Parsed(t)
      PROVE  Good([heard("reminder") EXCEPT !.draft = d], k)
    <2>1. d \in Drafts /\ (d.title \in Texts => d.title <= k)
        BY ParsedOK DEF Sources
    <2>2. Good(heard("reminder"), k)
        BY <1>1 DEF Intents
    <2> HIDE DEF heard
    <2>3. QED BY <2>1, <2>2, FieldGood
<1> HIDE DEF heard
<1>4. /\ OutcomeOK(Go(heard("unknown"), Plain("smart_picker")), k)
      /\ \A i \in {"note", "task"} : OutcomeOK(Go(heard(i), Plain("smart_confirm")), k)
      /\ \A d \in Parsed(t) :
            OutcomeOK(Go([heard("reminder") EXCEPT !.draft = d], Plain("smart_confirm")), k)
    BY <1>1, <1>3, GoOK DEF Intents
<1> DEFINE all == {Go(In(u, "idle"), Nothing), Go(heard("unknown"), Plain("smart_picker"))}
                   \cup {Go(heard(i), Plain("smart_confirm")) : i \in {"note", "task"}}
                   \cup {Go([heard("reminder") EXCEPT !.draft = d], Plain("smart_confirm"))
                            : d \in Parsed(t)}
<1>5. \A o \in all : OutcomeOK(o, k)
    BY <1>2, <1>4
<1>6. handleSmartInput(u, t) = {New(o) : o \in all}
    BY DEF handleSmartInput, heard
<1> HIDE DEF all
<1>7. QED BY <1>5, <1>6, PlaceOK

LEMMA ResetGood ==
    ASSUME Inv, NEW k, NEW u, Good(u, k)
    PROVE  /\ Good(resetSmart(u), k) /\ resetSmart(u).smart.raw = Nothing
           /\ resetSmart(u).state = "idle"
<1>1. Good(In(u, "idle"), k) /\ In(u, "idle").state = "idle"
    BY InGood, FreeStates
<1>2. Good(resetSmart(u), k)
    BY <1>1, NothingKept, FieldGood DEF resetSmart
<1>3. resetSmart(u).smart.raw = Nothing /\ resetSmart(u).state = "idle"
    BY <1>1, NothingKept DEF resetSmart, Good, SessionOK, Sessions
<1>4. QED BY <1>2, <1>3

\* What the confirmation of a preview did is a write of the session's text to the
\* session's date, or a reminder; the preview is closed when it is reported.
SmartOK(o, u) ==
    /\ o.did.by = Nothing
    /\ Writes(o.did) => o.did.text = u.smart.raw /\ o.did.dest = u.date
    /\ o.did.text \in {u.smart.raw, u.draft.title, Nothing}
    /\ o.did.told => o.to.smart.raw = Nothing \/ o.did.text = Nothing

LEMMA WriteSmartOK ==
    ASSUME Inv, NEW k, NEW u, Good(u, k), NEW w \in {"append", "task"}, NEW v,
           Good(v, k), v.smart.raw = Nothing, v.state = "idle"
    PROVE  \A o \in Write(Outcome(v, Menu, Effect(w, u.smart.raw, u.date)), Go(u, Dead)) :
              OutcomeOK(o, k) /\ SmartOK(o, u)
<1> DEFINE a == Outcome(v, Menu, Effect(w, u.smart.raw, u.date))
<1>1. OutcomeOK(a, k) /\ a.did = Effect(w, u.smart.raw, u.date)
    BY CallOK
<1>2. \A o \in Write(a, Go(u, Dead)) :
          /\ o.did.by = Nothing /\ o.did.text \in {u.smart.raw, Nothing}
          /\ o.did.what = w =>
                (o.did.dest = u.date /\ o.did.text = u.smart.raw) \/ o.did = NoEffect
          /\ o.did.what \in {w, "none"}
          /\ o.did.told => o.to = v \/ o.did = NoEffect
    BY WriteIs
<1> HIDE DEF a
<1>3. \A o \in Write(a, Go(u, Dead)) : OutcomeOK(o, k)
    BY <1>1, WriteOK, EffectIs
<1>4. \A o \in Write(a, Go(u, Dead)) : SmartOK(o, u)
    BY <1>2, NoEffectIs DEF SmartOK, Writes
<1>5. QED BY <1>3, <1>4 DEF a

LEMMA ExecuteOK ==
    ASSUME Inv, NEW k, NEW u, Good(u, k), NEW i
    PROVE  \A o \in executeSmart(u, i) : OutcomeOK(o, k) /\ SmartOK(o, u)
<1>1. /\ Good(resetSmart(u), k) /\ resetSmart(u).smart.raw = Nothing
      /\ resetSmart(u).state = "idle"
    BY ResetGood
<1>2. CASE i \in {"note", "task"}
    BY <1>1, <1>2, WriteSmartOK DEF executeSmart
<1>3. CASE i = "reminder"
    <2>1. ASSUME NEW q \in finalizeReminder(u)
          PROVE  LET o == Partly([q EXCEPT !.to.smart = NoSmart], {q.to, [u EXCEPT !.smart = NoSmart]})
                 IN  OutcomeOK(o, k) /\ SmartOK(o, u)
        <3> DEFINE v == [q.to EXCEPT !.smart = NoSmart]
                   w == [u EXCEPT !.smart = NoSmart]
                   p == [q EXCEPT !.to.smart = NoSmart]
                   o == Partly(p, {q.to, w})
        <3>1. /\ OutcomeOK(q, k) /\ Good(q.to, k) /\ q.did.by = Nothing /\ ~Writes(q.did)
              /\ q.did.text \in {u.draft.title, Nothing} /\ q.did.what \in {"create", "none"}
            BY FinalizeOK
        <3>2. p = [to |-> v, show |-> q.show, at |-> q.at, did |-> q.did, part |-> q.part]
            BY <3>1 DEF OutcomeOK, BaseOK
        <3>3. p.to = v /\ p.show = q.show /\ p.at = q.at /\ p.did = q.did /\ p.part = q.part
            BY <3>2
        <3>4. Good(v, k) /\ Good(w, k)
            BY <3>1, NothingKept, FieldGood
        <3>5. /\ v.smart.raw = Nothing /\ v.state = q.to.state
              /\ v.note = q.to.note /\ v.pend = q.to.pend
            BY <3>1, NothingKept DEF Good, SessionOK, Sessions
        <3> HIDE DEF p, v, w
        <3>6. BaseOK(p, k)
            BY <3>1, <3>2, <3>3, <3>4, <3>5 DEF OutcomeOK, BaseOK, Good
        <3>7. OutcomeOK(p, k)
            BY <3>1, <3>3, <3>6, ByNobody DEF OutcomeOK
        <3>8. \A x \in {q.to, w} : Good(x, k)
            BY <3>1, <3>4
        <3>9. OutcomeOK(o, k) /\ o.did = q.did /\ o.to = v
            BY <3>3, <3>7, <3>8, PartlyOK
        <3>10. SmartOK(o, u)
            BY <3>1, <3>5, <3>9 DEF SmartOK
        <3>11. QED BY <3>9, <3>10 DEF o, p, w
    <2>2. QED BY <1>3, <2>1 DEF executeSmart
<1>4. CASE i \notin {"note", "task", "reminder"}
    <2>1. OutcomeOK(Go(u, Dead), k) /\ Go(u, Dead).did = NoEffect
        BY GoOK
    <2>2. SmartOK(Go(u, Dead), u)
        BY <2>1, NoEffectIs DEF SmartOK, Writes
    <2>3. QED BY <1>4, <2>1, <2>2 DEF executeSmart
<1>5. QED BY <1>2, <1>3, <1>4

LEMMA RejectOK ==
    ASSUME Inv, NEW k, NEW u, Good(u, k)
    PROVE  \A o \in HandleSmartReject(u) :
              OutcomeOK(o, k) /\ SmartOK(o, u) /\ o.did.what = "reject"
<1> DEFINE o == Outcome(resetSmart(u), Menu, Effect("reject", u.smart.raw, Nothing))
<1>1. /\ Good(resetSmart(u), k) /\ resetSmart(u).smart.raw = Nothing
      /\ resetSmart(u).state = "idle"
    BY ResetGood
<1>2. /\ OutcomeOK(o, k) /\ o.did = Effect("reject", u.smart.raw, Nothing)
      /\ o.to = resetSmart(u)
    BY <1>1, CallOK
<1> HIDE DEF o
<1>3. SmartOK(o, u) /\ o.did.what = "reject"
    BY <1>1, <1>2, EffectIs DEF SmartOK, Writes
<1>4. QED BY <1>2, <1>3 DEF HandleSmartReject, o

LEMMA PickIntentOK ==
    ASSUME Inv, NEW k, NEW u, Good(u, k), NEW i
    PROVE  \A o \in HandleSmartPickIntent(u, i) : OutcomeOK(o, k) /\ SmartOK(o, u)
<1>1. CASE i = "reminder" /\ u.draft.type = Nothing
    <2> DEFINE v == In(u, "reminder_create_nl")
    <2>1. Good(v, k)
        BY InGood, FreeStates
    <2>2. u.smart.raw \in Sources \cup {Nothing} /\ (u.smart.raw \in Texts => u.smart.raw <= k)
        BY DEF Good, SessionOK, Sessions, Heard
    <2> HIDE DEF v
    <2>3. \A q \in handleReminderNLInput(v, u.smart.raw) : OutcomeOK(q, k) /\ q.did = NoEffect
        BY <2>1, <2>2, NLInputOK
    <2>4. ASSUME NEW q \in handleReminderNLInput(v, u.smart.raw)
          PROVE  LET o == Partly(q, {v, [u EXCEPT !.draft = q.to.draft]})
                 IN  OutcomeOK(o, k) /\ o.did = NoEffect
        <3>1. q.to.draft \in Drafts /\ (q.to.draft.title \in Texts => q.to.draft.title <= k)
            BY <2>3 DEF OutcomeOK, BaseOK, SessionOK, Sessions, Heard
        <3> DEFINE w == [u EXCEPT !.draft = q.to.draft]
        <3>2. Good(w, k)
            BY <3>1, FieldGood
        <3> HIDE DEF w
        <3>3. \A x \in {v, w} : Good(x, k)
            BY <2>1, <3>2
        <3>4. OutcomeOK(Partly(q, {v, w}), k) /\ Partly(q, {v, w}).did = NoEffect
            BY <2>3, <3>3, PartlyOK
        <3>5. QED BY <3>4 DEF w
    <2>5. HandleSmartPickIntent(u, i) =
              {Partly(q, {v, [u EXCEPT !.draft = q.to.draft]}) :
                  q \in handleReminderNLInput(v, u.smart.raw)}
        BY <1>1 DEF HandleSmartPickIntent, v
    <2>6. \A o \in HandleSmartPickIntent(u, i) : OutcomeOK(o, k) /\ o.did = NoEffect
        BY <2>4, <2>5
    <2>7. QED BY <2>6, NoEffectIs DEF SmartOK, Writes
<1>2. CASE ~(i = "reminder" /\ u.draft.type = Nothing)
    BY <1>2, ExecuteOK DEF HandleSmartPickIntent
<1>3. QED BY <1>1, <1>2

\* An outcome is marked with the confirmation it came from.
LEMMA MarkOK ==
    ASSUME NEW k, NEW q, BaseOK(q, k), NEW who
    PROVE  LET o == [q EXCEPT !.did.by = who]
           IN  /\ BaseOK(o, k) /\ o.to = q.to /\ o.did.by = who
               /\ o.did.what = q.did.what /\ o.did.text = q.did.text
               /\ o.did.dest = q.did.dest /\ o.did.told = q.did.told
<1> DEFINE e == [q.did EXCEPT !.by = who]
           o == [q EXCEPT !.did.by = who]
<1>1. /\ q = [to |-> q.to, show |-> q.show, at |-> q.at, did |-> q.did, part |-> q.part]
      /\ EffectOK(q.did)
    BY DEF BaseOK
<1>2. o = [to |-> q.to, show |-> q.show, at |-> q.at, did |-> e, part |-> q.part]
    BY <1>1
<1>3. o.to = q.to /\ o.show = q.show /\ o.at = q.at /\ o.did = e /\ o.part = q.part
    BY <1>2
<1>4. /\ e.what = q.did.what /\ e.text = q.did.text /\ e.dest = q.did.dest /\ e.by = who
      /\ e.told = q.did.told
      /\ e \in [what : {e.what}, text : {e.text}, dest : {e.dest}, by : {e.by}, told : BOOLEAN]
    BY <1>1 DEF EffectOK
<1>5. EffectOK(e)
    BY <1>1, <1>4 DEF EffectOK
<1> HIDE DEF o, e
<1>6. BaseOK(o, k)
    BY <1>2, <1>3, <1>4, <1>5 DEF BaseOK
<1>7. QED BY <1>3, <1>4, <1>6 DEF o

LEMMA BySmartOK ==
    ASSUME Inv, NEW k, NEW u, Good(u, k), NEW outcomes,
           \A o \in outcomes : OutcomeOK(o, k) /\ SmartOK(o, u)
    PROVE  \A o \in By("smart", outcomes) : OutcomeOK(o, k)
<1>1. ASSUME NEW q \in outcomes
      PROVE  OutcomeOK([q EXCEPT !.did.by = "smart"], k)
    <2> DEFINE o == [q EXCEPT !.did.by = "smart"]
    <2>1. BaseOK(q, k) /\ SmartOK(q, u)
        BY <1>1 DEF OutcomeOK
    <2>2. /\ BaseOK(o, k) /\ o.to = q.to /\ o.did.by = "smart" /\ o.did.what = q.did.what
          /\ o.did.text = q.did.text /\ o.did.told = q.did.told
        BY <2>1, MarkOK
    <2> HIDE DEF o
    <2>3. Repeats(o.did) => o.did.text = s.smart.raw
        BY <2>1, <2>2 DEF SmartOK, Writes, Repeats, Good
    <2>4. o.did.told /\ o.did.text \in Texts => o.did.text <= k /\ o.to.smart.raw # o.did.text
        BY <2>1, <2>2, NothingKept DEF SmartOK, Good, Heard, NoSmart
    <2>5. ByOK(o, k)
        BY <2>2, <2>3, <2>4, ConstantsAssumption DEF ByOK
    <2>6. QED BY <2>2, <2>5 DEF OutcomeOK, o
<1>2. QED BY <1>1 DEF By

LEMMA SmartActionOK ==
    ASSUME Inv, UNCHANGED <<texts, job>>, NEW m \in Msgs, handleSmartAction(m)
    PROVE  Moves
<1> DEFINE u == Session(m)
<1>1. Good(u, texts)
    BY SessionGood
<1> HIDE DEF u
<1>2. /\ \A o \in By("smart", executeSmart(u, u.smart.intent)) : OutcomeOK(o, texts)
      /\ \A o \in By("smart", HandleSmartReject(u)) : OutcomeOK(o, texts)
      /\ \A i : \A o \in By("smart", HandleSmartPickIntent(u, i)) : OutcomeOK(o, texts)
    <2>1. /\ \A o \in executeSmart(u, u.smart.intent) : OutcomeOK(o, texts) /\ SmartOK(o, u)
          /\ \A o \in HandleSmartReject(u) : OutcomeOK(o, texts) /\ SmartOK(o, u)
          /\ \A i : \A o \in HandleSmartPickIntent(u, i) : OutcomeOK(o, texts) /\ SmartOK(o, u)
        BY <1>1, ExecuteOK, RejectOK, PickIntentOK
    <2>2. QED BY <1>1, <2>1, BySmartOK
<1>3. QED BY <1>2, ClickOK, PressOK DEF handleSmartAction, u

-----------------------------------------------------------------------------
(***************************************************************************)
(* Confirmations of voice messages.                                         *)
(***************************************************************************)
LEMMA RestoreGood ==
    ASSUME Inv, NEW u, Good(u, texts), NEW j \in Jobs,
           NEW p \in [intent : Intents \cup {"none"}, plan : Drafts], p.plan.title \in {j, Nothing}
    PROVE  LET v == restoreVoiceDraft(u, j, p)
           IN  /\ Good(v, texts) /\ v.date = JobDate[j] /\ v.smart.raw \in {j, Nothing}
               /\ v.draft.title \in {j, Nothing}
<1> DEFINE v == restoreVoiceDraft(u, j, p)
           x == IF p.intent = "none" THEN NoSmart ELSE [raw |-> j, intent |-> p.intent]
           st == IF p.intent = "none" THEN "reminder_create_task_confirm" ELSE "smart_confirm"
<1>1. j \notin Texts /\ Nothing \notin Texts /\ j \notin spent
    <2>1. j \notin Nat /\ MaxTexts \in Nat
        BY ConstantsAssumption
    <2>2. spent \subseteq Nat /\ Texts \subseteq Nat
        BY <2>1 DEF Inv, Texts
    <2> HIDE DEF v, x, st
    <2>3. j \notin Texts /\ j \notin spent
        BY <2>1, <2>2
    <2>4. Nothing \notin Texts
        BY NothingKept
    <2>5. QED BY <2>3, <2>4
<1>2. /\ x \in [raw : Sources \cup {Nothing}, intent : Intents \cup {Nothing}]
      /\ x.raw \in {j, Nothing}
    BY DEF Sources, NoSmart
<1>3. st \in Free /\ JobDate[j] \in Dates /\ p.plan \in Drafts
    BY FreeStates, ConstantsAssumption
<1>4. v = [u EXCEPT !.date = JobDate[j], !.draft = p.plan, !.smart = x, !.state = st]
    BY DEF restoreVoiceDraft
<1> HIDE DEF x, st, v
<1>5. /\ SessionOK(v) /\ Heard(v, texts) /\ v.state = st /\ v.pend = u.pend /\ v.smart = x
      /\ v.date = JobDate[j] /\ v.draft = p.plan
    <2>1. SessionOK(u) /\ st \in States
        BY <1>3 DEF Good, Free
    <2>2. /\ v.state = st /\ v.pend = u.pend /\ v.smart = x /\ v.date = JobDate[j]
          /\ v.draft = p.plan
        BY <1>4, <2>1 DEF SessionOK, Sessions
    <2>3. SessionOK(v)
        BY <1>2, <1>3, <1>4, <2>1 DEF SessionOK, Sessions, Free
    <2>4. Heard(v, texts)
        BY <1>1, <1>2, <2>2 DEF Heard
    <2>5. QED BY <2>2, <2>3, <2>4
<1>6. x.raw \notin spent
    BY <1>1, <1>2, NothingKept DEF NoSmart
<1>7. Good(v, texts)
    BY <1>3, <1>5, <1>6 DEF Good, Free
<1>8. QED BY <1>2, <1>5, <1>7 DEF v

\* What the confirmation of a voice message may write.
OfJob(e, j) ==
    e.what \in {"append", "task", "create"} =>
        e.text = Nothing \/ (e.text = j /\ (Writes(e) => e.dest = JobDate[j]))

LEMMA ByJobOK ==
    ASSUME NEW k, NEW j \in Jobs, NEW outcomes,
           \A o \in outcomes : OutcomeOK(o, k) /\ OfJob(o.did, j)
    PROVE  \A o \in By(j, outcomes) : OutcomeOK(o, k)
<1>1. ASSUME NEW q \in outcomes
      PROVE  OutcomeOK([q EXCEPT !.did.by = j], k)
    <2> DEFINE o == [q EXCEPT !.did.by = j]
    <2>1. OfJob(q.did, j)
        BY <1>1
    <2> BaseOK(q, k)
        BY <1>1 DEF OutcomeOK
    <2>2. /\ BaseOK(o, k) /\ o.to = q.to /\ o.did.by = j
          /\ o.did.what = q.did.what /\ o.did.text = q.did.text
          /\ o.did.dest = q.did.dest /\ o.did.told = q.did.told
        <3>1. \A who : LET p == [q EXCEPT !.did.by = who]
                       IN  /\ BaseOK(p, k) /\ p.to = q.to /\ p.did.by = who
                           /\ p.did.what = q.did.what /\ p.did.text = q.did.text
                           /\ p.did.dest = q.did.dest /\ p.did.told = q.did.told
            BY MarkOK
        <3>2. QED BY <3>1
    <2> HIDE DEF o
    <2>3. ByOK(o, k)
        BY <2>1, <2>2, ConstantsAssumption DEF ByOK, Writes, OfJob
    <2>4. QED BY <2>2, <2>3 DEF OutcomeOK, o
<1>2. QED BY <1>1 DEF By

\* A session that was restored from the row of the job, or an empty one.
LEMMA ExecuteVoiceOK ==
    ASSUME Inv, NEW u, Good(u, texts), NEW j \in Jobs, NEW i,
           u.smart.raw # Nothing => u.smart.raw = j /\ u.date = JobDate[j],
           u.draft.title \in {j, Nothing}
    PROVE  \A o \in executeSmart(u, i) : OutcomeOK(o, texts) /\ OfJob(o.did, j)
<1>1. \A o \in executeSmart(u, i) : OutcomeOK(o, texts) /\ SmartOK(o, u)
    BY ExecuteOK
<1>2. \A o \in executeSmart(u, i) : OfJob(o.did, j)
    BY <1>1 DEF SmartOK, OfJob, Writes
<1>3. QED BY <1>1, <1>2

LEMMA FinalizeVoiceOK ==
    ASSUME NEW u, Good(u, texts), NEW j \in Jobs, u.draft.title \in {j, Nothing}
    PROVE  \A o \in finalizeReminder(u) : OutcomeOK(o, texts) /\ OfJob(o.did, j)
BY FinalizeOK DEF OfJob

LEMMA FreshVoice ==
    ASSUME Inv
    PROVE  Good(Fresh, texts) /\ Fresh.smart.raw = Nothing /\ Fresh.draft.title = Nothing
BY FreshGood, NothingSpent DEF Fresh, NoSmart, NoDraft

LEMMA ConfirmVoiceOK ==
    ASSUME Inv, NEW u, Good(u, texts), NEW j \in Jobs, u.date = JobDate[j],
           u.smart.raw \in {j, Nothing}, u.draft.title \in {j, Nothing}, NEW i
    PROVE  /\ \A o \in ConfirmVoice(u, j, i) : OutcomeOK(o, texts) /\ OfJob(o.did, j)
           /\ \A o \in PickVoice(u, j, i) : OutcomeOK(o, texts) /\ OfJob(o.did, j)
<1>1. ASSUME i = "note"
      PROVE  \A o \in ConfirmVoice(u, j, i) : OutcomeOK(o, texts) /\ OfJob(o.did, j)
    <2> DEFINE a == Outcome(resetSmart(u), Menu, Effect("append", j, JobDate[j]))
    <2>1. Good(resetSmart(u), texts) /\ resetSmart(u).state = "idle"
        BY ResetGood
    <2>2. OutcomeOK(a, texts) /\ a.did = Effect("append", j, JobDate[j])
        BY <2>1, CallOK
    <2>3. \A o \in Write(a, Go(u, Dead)) :
              /\ o.did.what \in {"append", "none"}
              /\ o.did.what = "append" =>
                    (o.did.dest = JobDate[j] /\ o.did.text = j) \/ o.did = NoEffect
        BY WriteIs
    <2> HIDE DEF a
    <2>4. \A o \in Write(a, Go(u, Dead)) : OutcomeOK(o, texts)
        BY <2>2, WriteOK, EffectIs
    <2>5. \A o \in Write(a, Go(u, Dead)) : OfJob(o.did, j)
        BY <2>3, NoEffectIs DEF OfJob
    <2>6. QED BY <1>1, <2>4, <2>5 DEF ConfirmVoice, a
<1>2. ASSUME i # "note"
      PROVE  \A o \in ConfirmVoice(u, j, i) : OutcomeOK(o, texts) /\ OfJob(o.did, j)
    <2>1. OutcomeOK(Go(Fresh, Dead), texts) /\ Go(Fresh, Dead).did = NoEffect
        BY FreshVoice, GoOK
    <2>2. OfJob(NoEffect, j)
        BY NoEffectIs DEF OfJob
    <2>3. QED BY <1>2, <2>1, <2>2, ExecuteVoiceOK DEF ConfirmVoice
<1>3. \A o \in executeSmart(Fresh, i) : OutcomeOK(o, texts) /\ OfJob(o.did, j)
    BY FreshVoice, ExecuteVoiceOK
<1>4. \A o \in ConfirmVoice(u, j, i) : OutcomeOK(o, texts) /\ OfJob(o.did, j)
    BY <1>1, <1>2
<1>5. QED BY <1>3, <1>4 DEF PickVoice

\* A button of a confirmation: the session is restored, or the handler stops.
LEMMA PressVoiceOK ==
    ASSUME Inv, UNCHANGED texts, JobsOK', NEW m \in Msgs, NEW j \in Jobs, NEW name,
           NEW u, Good(u, texts), NEW outcomes,
           \A o \in outcomes : OutcomeOK(o, texts) /\ OfJob(o.did, j),
           PressVoice(m, name, j, u, outcomes)
    PROVE  Moves
<1>1. \A o \in By(j, outcomes) : OutcomeOK(o, texts)
    BY ByJobOK
<1>2. Good(Session(m), texts)
    BY SessionGood
<1>3. \A o \in {Go(Session(m), Dead)} : OutcomeOK(o, texts)
    BY <1>2, GoOK
<1>4. CASE PressFrom(u, m, name, j, By(j, outcomes))
    BY <1>1, <1>4, PressFromOK
<1>5. CASE PressFrom(Session(m), m, name, j, {Go(Session(m), Dead)})
    BY <1>2, <1>3, <1>5, PressFromOK
<1>6. QED BY <1>4, <1>5 DEF PressVoice, Press

LEMMA GoVoiceOK ==
    ASSUME Inv, NEW u, Good(u, texts), NEW c, NEW j
    PROVE  \A o \in {Go(u, c)} : OutcomeOK(o, texts) /\ OfJob(o.did, j)
BY GoOK, NoEffectIs DEF OfJob

\* The parse is kept before the session is restored from it.
LEMMA PlanOK ==
    ASSUME Inv, UNCHANGED texts, NEW m \in Msgs, NEW j \in Jobs, NEW d \in Plans(j),
           job' = [job EXCEPT ![j].plan = d],
           LET v == restoreVoiceDraft(Session(m), j, job'[j])
           IN  PressVoice(m, "voice:pr", j, v, {Go(v, Screen("voice_nl", j))})
    PROVE  Moves
<1> DEFINE v == restoreVoiceDraft(Session(m), j, job'[j])
<1>1. d \in Drafts /\ d.title \in {j, Nothing}
    BY ParsedOK DEF Plans, Inv, JobsOK, Sources, Parsed, Drafts
<1>2. /\ job' \in [Jobs -> [intent : Intents \cup {"none"}, plan : Drafts]]
      /\ job'[j].plan = d
      /\ \A i \in Jobs : i # j => job'[i] = job[i]
    BY <1>1 DEF Inv, JobsOK
<1>3. JobsOK'
    BY <1>1, <1>2 DEF Inv, JobsOK
<1>4. /\ job'[j] \in [intent : Intents \cup {"none"}, plan : Drafts]
      /\ job'[j].plan.title \in {j, Nothing}
    BY <1>1, <1>2
<1>5. Good(v, texts)
    BY <1>4, SessionGood, RestoreGood
<1> HIDE DEF v
<1>6. \A o \in {Go(v, Screen("voice_nl", j))} : OutcomeOK(o, texts) /\ OfJob(o.did, j)
    BY <1>5, GoVoiceOK
<1>7. PressVoice(m, "voice:pr", j, v, {Go(v, Screen("voice_nl", j))})
    BY DEF v
<1>8. QED BY <1>3, <1>5, <1>6, <1>7, PressVoiceOK

LEMMA VoiceOK ==
    ASSUME Inv, UNCHANGED texts, NEW m \in Msgs, NEW j \in Jobs,
           handleDurableVoiceConfirmation(m, j)
    PROVE  Moves
<1> DEFINE u == restoreVoiceDraft(Session(m), j, job[j])
<1>1. /\ job[j] \in [intent : Intents \cup {"none"}, plan : Drafts]
      /\ job[j].plan.title \in {j, Nothing}
    BY DEF Inv, JobsOK
<1>2. /\ Good(u, texts) /\ u.date = JobDate[j] /\ u.smart.raw \in {j, Nothing}
      /\ u.draft.title \in {j, Nothing}
    BY <1>1, SessionGood, RestoreGood
<1>3. UNCHANGED job => JobsOK'
    BY DEF Inv, JobsOK
<1> HIDE DEF u
<1>4. CASE UNCHANGED job /\
             \/ PressVoice(m, "voice:y", j, u, ConfirmVoice(u, j, job[j].intent))
             \/ PressVoice(m, "voice:pn", j, u, ConfirmVoice(u, j, "note"))
             \/ PressVoice(m, "voice:pt", j, u, PickVoice(u, j, "task"))
    <2>1. /\ \A i : \A o \in ConfirmVoice(u, j, i) : OutcomeOK(o, texts) /\ OfJob(o.did, j)
          /\ \A i : \A o \in PickVoice(u, j, i) : OutcomeOK(o, texts) /\ OfJob(o.did, j)
        BY <1>2, ConfirmVoiceOK
    <2>2. QED BY <1>2, <1>3, <1>4, <2>1, PressVoiceOK
<1>5. CASE UNCHANGED job /\ PressVoice(m, "voice:n", j, u, HandleSmartReject(u))
    <2>1. \A o \in HandleSmartReject(u) : OutcomeOK(o, texts) /\ OfJob(o.did, j)
        BY <1>2, RejectOK DEF OfJob
    <2>2. QED BY <1>2, <1>3, <1>5, <2>1, PressVoiceOK
<1>6. CASE UNCHANGED job /\
             PressVoice(m, "voice:rc", j, u, finalizeReminder(u) \cup finalizeReminder(Fresh))
    <2>1. \A o \in finalizeReminder(u) \cup finalizeReminder(Fresh) :
              OutcomeOK(o, texts) /\ OfJob(o.did, j)
        BY <1>2, FreshVoice, FinalizeVoiceOK
    <2>2. QED BY <1>2, <1>3, <1>6, <2>1, PressVoiceOK
<1>7. CASE UNCHANGED job /\ Press(m, "voice:pr", j, {Go(Session(m), Dead)})
    BY <1>7, SessionGood, GoOK, PressOK
<1>8. CASE UNCHANGED job /\ PressVoice(m, "voice:open", j, u, {Go(u, VoiceScreen(j))})
    <2>1. \A o \in {Go(u, VoiceScreen(j))} : OutcomeOK(o, texts) /\ OfJob(o.did, j)
        BY <1>2, GoVoiceOK
    <2>2. QED BY <1>2, <1>3, <1>8, <2>1, PressVoiceOK
<1>9. CASE \E d \in Plans(j) :
              /\ job' = [job EXCEPT ![j].plan = d]
              /\ LET v == restoreVoiceDraft(Session(m), j, job'[j])
                 IN  PressVoice(m, "voice:pr", j, v, {Go(v, Screen("voice_nl", j))})
    BY <1>9, PlanOK
<1>10. QED BY <1>4, <1>5, <1>6, <1>7, <1>8, <1>9 DEF handleDurableVoiceConfirmation, u

-----------------------------------------------------------------------------
(***************************************************************************)
(* Texts.                                                                   *)
(***************************************************************************)

LEMMA SaidOK ==
    ASSUME Inv, NEW k, Good(s, k), NEW st, Good(In(s, st), k),
           In(s, st).state # "reminder_postpone_time",
           NEW what \in {"rating", "task", "append"}, NEW t
    PROVE  \A o \in Said(st, what, t) : OutcomeOK(o, k)
<1> DEFINE a == Outcome(In(s, st), Menu, Effect(what, t, s.date))
<1>1. OutcomeOK(a, k) /\ a.did = Effect(what, t, s.date)
    BY CallOK
<1> HIDE DEF a
<1>2. \A o \in Write(a, Go(s, Nothing)) : OutcomeOK(o, k)
    BY <1>1, WriteOK, EffectIs
<1>3. QED BY <1>2 DEF Said, a

LEMMA AppendToNoteOK ==
    ASSUME Inv, UNCHANGED job, handleAppendToNoteInput(texts + 1)
    PROVE  Moves
<1> DEFINE k == texts + 1
           back == IF s.ret = "browse_file" THEN "browse_file" ELSE "view_note"
           next == IF back = "browse_file" THEN Plain("file") ELSE Screen("view", s.found)
           v == In(s, back)
           a == Outcome(v, next, Effect("append_path", k, s.note))
<1>1. /\ s.note # Nothing /\ s.state = "append_to_note_input" /\ texts < MaxTexts
      /\ Type({"append_to_note_input"}, Write(a, Go(s, Nothing)))
    BY DEF handleAppendToNoteInput, Type
<1>2. Good(s, k) /\ s.note = asked.note
    BY <1>1, NextText, HereGood DEF Inv
<1>3. back \in States \cap {"browse_file", "view_note"}
    BY DEF States, Silent
<1> HIDE DEF back, k
<1>4. SessionOK(v) /\ Heard(v, k) /\ v.state = back /\ v.pend = s.pend /\ v.smart = s.smart
    BY <1>1, <1>2, <1>3 DEF Good, SessionOK, Sessions, Heard, In
<1>5. Good(v, k)
    BY <1>2, <1>3, <1>4 DEF Good
<1>6. v.state # "reminder_postpone_time"
    BY <1>3, <1>4
<1> HIDE DEF v, next
<1>7. OutcomeOK(a, k) /\ a.did = Effect("append_path", k, s.note)
    BY <1>2, <1>5, <1>6, CallOK
<1> HIDE DEF a
<1>8. \A o \in Write(a, Go(s, Nothing)) : OutcomeOK(o, k)
    BY <1>2, <1>7, WriteOK, EffectIs
<1>9. QED BY <1>1, <1>8, TypeStep DEF k

\* The reminder of the session is postponed, and the session forgets it.
LEMMA PostponedOK ==
    ASSUME Inv, NEW k, Good(s, k), NEW v, Good(v, k), v.pend = Nothing, v.state = "idle"
    PROVE  \A o \in Postponed(v) : OutcomeOK(o, k)
<1> DEFINE a == Outcome(v, Menu, Effect("postpone", Nothing, s.pend))
<1>1. OutcomeOK(a, k) /\ a.did = Effect("postpone", Nothing, s.pend)
    BY CallOK
<1> HIDE DEF a
<1>2. \A o \in Write(a, Go(s, Nothing)) : OutcomeOK(o, k)
    BY <1>1, WriteOK, EffectIs
<1>3. QED BY <1>2 DEF Postponed, a

LEMMA PostponeTextOK ==
    ASSUME Inv, handleReminderPostponeTextInput \/ handleReminderPostponeTimeInput
    PROVE  Moves
<1> DEFINE k == texts + 1
           v == [In(s, "idle") EXCEPT !.pend = Nothing]
           w == [In(s, "idle") EXCEPT !.pend = Nothing, !.picked = FALSE]
<1>1. texts < MaxTexts
    BY DEF handleReminderPostponeTextInput, handleReminderPostponeTimeInput, Type
<1>2. Good(s, k)
    BY <1>1, NextText, HereGood
<1> HIDE DEF k
<1>3. Good(In(s, "idle"), k) /\ In(s, "idle").state = "idle"
    BY <1>2, InGood, FreeStates
<1>4. Good(v, k) /\ v.pend = Nothing /\ v.state = "idle"
    BY <1>3 DEF Good, SessionOK, Sessions, Heard
<1>5. Good(w, k) /\ w.pend = Nothing /\ w.state = "idle"
    BY <1>3 DEF Good, SessionOK, Sessions, Heard
<1> HIDE DEF v, w
<1>6. /\ \A o \in Postponed(v) : OutcomeOK(o, k)
      /\ \A o \in Postponed(w) : OutcomeOK(o, k)
    BY <1>2, <1>4, <1>5, PostponedOK
<1>7. \/ Type({"reminder_postpone_input"}, Postponed(v))
      \/ Type({"reminder_postpone_time"}, Postponed(w))
    BY DEF handleReminderPostponeTextInput, handleReminderPostponeTimeInput, v, w
<1>8. QED BY <1>6, <1>7, TypeStep DEF k

LEMMA TitleOK ==
    ASSUME Inv, handleReminderTitleInput(texts + 1)
    PROVE  Moves
<1> DEFINE k == texts + 1
           v == [In(s, "reminder_create_schedule_type") EXCEPT !.draft.title = k]
           d == [s.draft EXCEPT !.title = k]
<1>1. texts < MaxTexts
    BY DEF handleReminderTitleInput, Type
<1>2. Good(s, k) /\ k \in Texts /\ k \in Nat
    BY <1>1, NextText, HereGood
<1> HIDE DEF k
<1>3. d \in Drafts /\ d.title = k
    BY <1>2 DEF Good, SessionOK, Sessions, Drafts, Sources
<1>4. v = [In(s, "reminder_create_schedule_type") EXCEPT !.draft = d]
    BY <1>2 DEF In, Good, SessionOK, Sessions
<1> HIDE DEF d
<1>5. Good(v, k)
    <2>1. Good(In(s, "reminder_create_schedule_type"), k)
        BY <1>2, InGood, FreeStates
    <2>2. d.title \in Texts => d.title <= k
        BY <1>2, <1>3
    <2>3. QED BY <1>3, <1>4, <2>1, <2>2, FieldGood
<1> HIDE DEF v
<1>6. OutcomeOK(Last(Go(v, Plain("type"))), k)
    BY <1>5, GoOK, PlaceOK
<1>7. Type({"reminder_create_title"}, {Last(Go(v, Plain("type")))})
    BY DEF handleReminderTitleInput, v, k
<1>8. QED BY <1>6, <1>7, TypeStep DEF k

LEMMA ParamOK ==
    ASSUME Inv, handleReminderParamInput
    PROVE  Moves
<1> DEFINE k == texts + 1
           refused == Last(Go(s, Cancel))
           entered == IF s.state = "reminder_create_interval" THEN {"custom_days"}
                      ELSE {s.draft.type} \cap {"weekly", "monthly"}
           next == Last(toTaskConfirm(s, [s EXCEPT !.draft.given = @ \cup entered]))
           days == IF entered = {} THEN {next} ELSE {next, refused}
<1>1. texts < MaxTexts
    BY DEF handleReminderParamInput, Type
<1>2. Good(s, k)
    BY <1>1, NextText, HereGood
<1> HIDE DEF k
<1>3. entered \in SUBSET Kinds
    BY <1>2, ConstantsAssumption DEF Good, SessionOK, Sessions, Drafts
<1> HIDE DEF entered
<1>4. Good([s EXCEPT !.draft.given = @ \cup entered], k)
    BY <1>2, <1>3, WizardGood
<1>5. OutcomeOK(next, k)
    BY <1>2, <1>4, TaskConfirmOK
<1>6. OutcomeOK(refused, k)
    BY <1>2, GoOK, PlaceOK
<1>7. \A o \in finalizeReminder(s) \cup {refused} : OutcomeOK(o, k)
    BY <1>2, <1>6, FinalizeOK
<1>8. \/ Type({"reminder_create_day", "reminder_create_interval"}, days)
      \/ Type({"reminder_create_time"}, finalizeReminder(s) \cup {refused})
    BY DEF handleReminderParamInput, entered
<1> HIDE DEF next, refused
<1>9. \A o \in days : OutcomeOK(o, k)
    BY <1>5, <1>6
<1> HIDE DEF days
<1>10. QED BY <1>7, <1>8, <1>9, TypeStep DEF k

LEMMA TextOK ==
    ASSUME Inv, HandleTextMessage
    PROVE  Moves
<1> DEFINE k == texts + 1
<1>1. texts < MaxTexts /\ UNCHANGED job
    BY DEF HandleTextMessage, Type, handleRatingInput, handleAddTaskInput, handleAppendNote,
           handleAskInput, handleFindInput, handleAppendToNoteInput,
           handleReminderPostponeTextInput, handleReminderPostponeTimeInput,
           handleReminderTitleInput, handleReminderParamInput
<1>2. Good(s, k) /\ k \in Texts /\ k \notin spent
    BY <1>1, NextText, HereGood
<1>3. ASSUME handleRatingInput(k) \/ handleAddTaskInput(k) \/ handleAppendNote(k)
      PROVE  Moves
    <2> HIDE DEF k
    <2>1. /\ Good(In(s, "idle"), k) /\ Good(In(s, "tasks_view"), k)
          /\ In(s, "idle").state = "idle" /\ In(s, "tasks_view").state = "tasks_view"
        BY <1>2, InGood, FreeStates
    <2>2. Good(In(s, s.state), k) /\ In(s, s.state).state = s.state
        BY <1>2 DEF Good, SessionOK, Sessions, Heard, In
    <2>3. /\ \A o \in Said("idle", "rating", k) : OutcomeOK(o, k)
          /\ \A o \in Said("tasks_view", "task", k) : OutcomeOK(o, k)
          /\ s.state \in Silent => \A o \in Said(s.state, "append", k) : OutcomeOK(o, k)
        BY <1>2, <2>1, <2>2, SaidOK DEF Silent
    <2>4. QED BY <1>3, <2>3, TypeStep
             DEF handleRatingInput, handleAddTaskInput, handleAppendNote, Type, k
<1>4. ASSUME handleAskInput \/ handleFindInput
      PROVE  Moves
    <2> DEFINE v(f) == [In(s, "find_note_results") EXCEPT !.found = f]
               all == UNION {showFindResults(v(f)) : f \in {{}, Notes}}
    <2> HIDE DEF k
    <2>1. \A f \in {{}, Notes} : Good(v(f), k)
        BY <1>2, InGood, FreeStates, FieldGood
    <2> HIDE DEF v
    <2>2. \A o \in all : OutcomeOK(o, k)
        BY <2>1, GoOK DEF showFindResults
    <2>3. \A o \in {Go(In(s, "idle"), Menu)} : OutcomeOK(o, k)
        BY <1>2, InGood, FreeStates, GoOK
    <2>4. \/ Type({"ask_question"}, {Go(In(s, "idle"), Menu)})
          \/ Type({"find_note_input"}, all)
        BY <1>4 DEF handleAskInput, handleFindInput, v
    <2> HIDE DEF all
    <2>5. QED BY <2>2, <2>3, <2>4, TypeStep DEF k
<1>5. ASSUME Type({"reminder_create_nl"}, handleReminderNLInput(s, k))
      PROVE  Moves
    <2> HIDE DEF k
    <2>1. k <= k
        BY <1>2, ConstantsAssumption DEF Texts
    <2>2. \A o \in handleReminderNLInput(s, k) : OutcomeOK(o, k)
        BY <1>2, <2>1, NLInputOK DEF Sources
    <2>3. QED BY <1>5, <2>2, TypeStep DEF k
<1>6. ASSUME Type({"smart_input"}, handleSmartInput(s, k))
      PROVE  Moves
    <2> HIDE DEF k
    <2>1. k <= k
        BY <1>2, ConstantsAssumption DEF Texts
    <2>2. \A o \in handleSmartInput(s, k) : OutcomeOK(o, k)
        BY <1>2, <2>1, SmartInputOK
    <2>3. QED BY <1>6, <2>2, TypeStep DEF k
<1>7. QED BY <1>1, <1>3, <1>4, <1>5, <1>6, AppendToNoteOK, PostponeTextOK, TitleOK, ParamOK
         DEF HandleTextMessage

-----------------------------------------------------------------------------
(***************************************************************************)
(* The specification.                                                       *)
(***************************************************************************)

\* What comes without the user changes a screen at most, or the session is gone.
LEMMA AsideOK ==
    ASSUME Inv, NEW event, Aside(event),
           s' = s \/ s' = Fresh, UNCHANGED chat \/ \E c : Send(c)
    PROVE  Moves
<1>1. /\ UNCHANGED <<late, job, texts, asked, spent, faults, astray, again>> /\ did' = NoEffect
    BY DEF Aside
<1>2. Good(Fresh, texts) /\ Fresh.pend = Nothing /\ Fresh.smart.raw = Nothing
      /\ Fresh.state = "idle"
    BY FreshGood, NothingSpent DEF Fresh, NoSmart
<1>3. /\ SessionOK(s') /\ Heard(s', texts)
      /\ s'.state = "append_to_note_input" => s'.note \in {asked.note, Nothing}
    BY <1>2 DEF Inv, Good
<1>4. SessionOK(s)' /\ Heard(s, texts)'
    BY <1>1, <1>3 DEF SessionOK, Sessions, Heard
<1>5. CountersOK'
    <2>1. Strays' = 0 \/ Strays' = Strays
        BY <1>1, <1>2 DEF Strays
    <2>2. Reopens' = 0 \/ Reopens' = Reopens
        BY <1>1, <1>2, NothingSpent DEF Reopens
    <2>3. Strays \in {0, 1} /\ Reopens \in {0, 1} /\ MaxFaults \in Nat
        BY ConstantsAssumption DEF Strays, Reopens
    <2>4. QED BY <1>1, <2>1, <2>2, <2>3 DEF Inv, CountersOK
<1>6. DOMAIN chat' = Msgs
    BY DEF Inv, Send
<1>7. /\ did'.by \notin Jobs /\ did'.by # "smart" /\ did'.what = "none"
      /\ ~Misses(did') /\ ~Repeats(did')
    BY <1>1, NoEffectIs, ConstantsAssumption DEF Sources, Misses, Repeats
<1>8. VoiceConfirmsNoOther'
    BY <1>7 DEF VoiceConfirmsNoOther
<1>9. AskedOK' /\ JobsOK' /\ texts' \in 0..MaxTexts /\ (spent \subseteq 1..texts)'
    BY <1>1 DEF Inv, AskedOK, JobsOK
<1>10. QED BY <1>1, <1>3, <1>4, <1>5, <1>6, <1>7, <1>8, <1>9 DEF Inv, Moves

LEMMA NextOK ==
    ASSUME Inv, Next
    PROVE  Moves
<1>1. CASE \E m \in Msgs : HandleCallback(m)
    <2>1. PICK m \in Msgs : HandleCallback(m)
        BY <1>1
    <2>2. CASE (\E j \in Jobs : handleDurableVoiceConfirmation(m, j)) /\ UNCHANGED texts
        BY <2>2, VoiceOK
    <2>3. CASE /\ \/ handleMenuAction(m) \/ handleTaskAction(m) \/ handleCalAction(m)
                  \/ handleNoteAction(m) \/ handleFindAction(m) \/ handleBrowseAction(m)
                  \/ handleReminderAction(m) \/ handleSmartAction(m)
               /\ UNCHANGED <<job, texts>>
        BY <2>3, MenuOK, TaskOK, CalOK, NoteOK, FindOK, BrowseOK, ReminderOK, SmartActionOK
    <2>4. QED BY <2>1, <2>2, <2>3 DEF HandleCallback
<1>2. CASE HandleTextMessage
    BY <1>2, TextOK
<1>3. CASE \/ \E r \in Reminders : MakeReminderHandler(r)
           \/ \E j \in Jobs : DeliverVoice(j)
           \/ HandleStart
           \/ Expire
    BY <1>3, AsideOK
       DEF MakeReminderHandler, DeliverVoice, HandleStart, Expire
<1>4. QED BY <1>1, <1>2, <1>3 DEF Next

LEMMA InvInit ==
    Init => Inv
<1> SUFFICES ASSUME Init
             PROVE  Inv
    OBVIOUS
<1>1. /\ texts = 0 /\ spent = {} /\ did = NoEffect /\ s = Fresh
      /\ asked = [note |-> Nothing, rem |-> Nothing] /\ MaxTexts \in Nat
      /\ faults = 0 /\ astray = 0 /\ again = 0 /\ MaxFaults \in Nat
    BY ConstantsAssumption DEF Init
<1>2. /\ SessionOK(s) /\ Heard(s, texts) /\ s.state = "idle" /\ s.pend = Nothing
      /\ s.smart.raw = Nothing
    <2>1. Good(Fresh, texts)
        BY <1>1, FreshGood
    <2>2. QED BY <1>1, <2>1 DEF Good, Fresh, NoSmart
<1>3. JobsOK
    BY ConstantsAssumption DEF Init, JobsOK
<1>4. DOMAIN chat = Msgs /\ late.msg = Nothing
    BY DEF Init
<1>5. AskedOK /\ did.what = "none" /\ did.by \notin Jobs
    BY <1>1, NoEffectIs, ConstantsAssumption DEF AskedOK, Sources
<1>6. CountersOK
    BY <1>1, <1>2 DEF CountersOK, Strays, Reopens
<1>7. QED BY <1>1, <1>2, <1>3, <1>4, <1>5, <1>6 DEF Inv, VoiceConfirmsNoOther

LEMMA InvStays ==
    Inv /\ UNCHANGED vars => Inv'
<1> SUFFICES ASSUME Inv, UNCHANGED vars
             PROVE  Inv'
    OBVIOUS
<1>1. /\ UNCHANGED <<texts, spent, did, s, asked, job, chat, late, faults, astray, again>>
    BY DEF vars
<1>2. QED BY <1>1 DEF Inv, SessionOK, Sessions, Heard, JobsOK, AskedOK, CountersOK, Strays, Reopens,
                      VoiceConfirmsNoOther

LEMMA Invariant ==
    Spec => []Inv
<1>1. Inv /\ [Next]_vars => Inv'
    BY NextOK, InvStays DEF Moves
<1>2. QED BY <1>1, InvInit, PTL DEF Spec

\* Every text finds a handler in the state it meets, a time is asked for only when
\* a date was picked, and the drafts keep their shape, whatever buttons of an
\* earlier session or of another dialog are pressed and wherever Redis fails.
THEOREM TypeCorrect == Spec => []TypeOK
<1>1. Inv => TypeOK
    <2> SUFFICES ASSUME Inv
                 PROVE  TypeOK
        OBVIOUS
    <2>1. SessionOK(s)
        BY DEF Inv
    <2>2. spent \subseteq Texts
        BY ConstantsAssumption DEF Inv, Texts
    <2>3. /\ DOMAIN chat = Msgs /\ late.msg \in Msgs \cup {Nothing}
          /\ faults \in 0..MaxFaults /\ astray \in Nat /\ again \in Nat
        BY DEF Inv, CountersOK
    <2>4. /\ \A j \in Jobs : job[j].plan \in Drafts
          /\ asked \in [note : Notes \cup {Nothing}, rem : Reminders \cup {Nothing}]
        BY DEF Inv, JobsOK, AskedOK
    <2>5. QED BY <2>1, <2>2, <2>3, <2>4 DEF TypeOK, SessionOK, Sessions, States
<1>2. QED BY <1>1, Invariant, PTL

\* handleAppendToNoteInput: a text goes to the note that was open when the bot
\* asked for it, or to none, whatever was opened, searched or pressed in between
\* and whichever write of the session was lost.
THEOREM AppendedWherePrompted == Spec => []AppendGoesWherePrompted
<1>1. Inv => AppendGoesWherePrompted
    BY DEF Inv, AppendGoesWherePrompted
<1>2. QED BY <1>1, Invariant, PTL

\* Both ways to postpone concern the reminder whose button was pressed last, or
\* none; each session that Redis did not take sends one postponement astray at most.
THEOREM PostponedLastPressed == Spec => PostponesLastPressed
<1>1. Inv /\ [Next]_vars => [Misses(did') => astray < faults]_vars
    BY NextOK DEF Moves
<1>2. QED BY <1>1, Invariant, PTL DEF Spec, PostponesLastPressed

\* handleDurableVoiceConfirmation: what a confirmation writes is the text of the
\* message it names, a note or a task on the date it was spoken, or an empty text,
\* whatever the session held and wherever Redis failed.
THEOREM VoiceConfirmed == Spec => []VoiceConfirmsNoOther
<1>1. Inv => VoiceConfirmsNoOther
    BY DEF Inv
<1>2. QED BY <1>1, Invariant, PTL

\* HandleSmartConfirm, HandleSmartReject: a typed text that was reported as saved
\* or cancelled is not written again by the buttons of a preview, but for once for
\* each session that Redis did not take.
THEOREM WrittenNoMore == Spec => WrittenOnce
<1>1. Inv /\ [Next]_vars => [Repeats(did') => again < faults]_vars
    BY NextOK DEF Moves
<1>2. QED BY <1>1, Invariant, PTL DEF Spec, WrittenOnce

=============================================================================
