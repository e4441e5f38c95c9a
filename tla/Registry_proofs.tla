----------------------------- MODULE Registry_proofs -----------------------------
(***************************************************************************)
(* Proofs about the registry and what agents keep in it and learn from it: *)
(* RegistryStore, Heartbeat and Discovery, for any number of requests and  *)
(* agents and any durations that leave the margins the modules assume.     *)
(* A part for each; they share no definition.                              *)
(***************************************************************************)
EXTENDS RegistryStore, Heartbeat, Discovery, TLAPS

------------------------------------------------------------------------------
(* RegistryStore.  An update that finds the row it read writes what it     *)
(* would have written at once: the invariant says that what it is about to *)
(* write is that row but for the note.                                     *)

Savings ==
  [at : {"saving"}, op : {"register", "update"}, saved : Records, read : Records \cup {NoRow}]

\* A pending update s is of a row that was there, with another note.
SoundUpdate(s) ==
  s # Free /\ s.op = "update" =>
    /\ s.read \in Records
    /\ s.saved.url = s.read.url /\ s.saved.reg = s.read.reg

UpdatesOK == \A w \in Writers : SoundUpdate(writer[w])

StoreInv == StoreTypeOK /\ UpdatesOK /\ SavesAreSerial

------------------------------------------------------------------------------
\* A record with fields replaced, spelt out.
LEMMA RecordFields ==
  ASSUME NEW r \in Records, NEW note \in Notes \cup {"none"}, NEW reg \in Nat, NEW emb \in BOOLEAN
  PROVE  /\ r.url \in Urls /\ r.note \in Notes \cup {"none"} /\ r.reg \in Nat /\ r.emb \in BOOLEAN
         /\ [r EXCEPT !.note = note] = Record(r.url, note, r.reg, r.emb)
         /\ [r EXCEPT !.emb = emb] = Record(r.url, r.note, r.reg, emb)
         /\ [r EXCEPT !.reg = reg] = Record(r.url, r.note, reg, r.emb)
<1>1. r.url \in Urls /\ r.note \in Notes \cup {"none"} /\ r.reg \in Nat /\ r.emb \in BOOLEAN
  BY DEF Records
<1>2. r = [url |-> r.url, note |-> r.note, reg |-> r.reg, emb |-> r.emb]
  BY DEF Records
<1>3. [r EXCEPT !.note = note] = Record(r.url, note, r.reg, r.emb)
  BY <1>2 DEF Record
<1>4. [r EXCEPT !.emb = emb] = Record(r.url, r.note, r.reg, emb)
  BY <1>2 DEF Record
<1>5. [r EXCEPT !.reg = reg] = Record(r.url, r.note, reg, r.emb)
  BY <1>2 DEF Record
<1>6. QED
  BY <1>1, <1>3, <1>4, <1>5

LEMMA RecordType ==
  ASSUME NEW url \in Urls, NEW note \in Notes \cup {"none"}, NEW reg \in Nat, NEW emb \in BOOLEAN
  PROVE  /\ Record(url, note, reg, emb) \in Records
         /\ Record(url, note, reg, emb).url = url
         /\ Record(url, note, reg, emb).note = note
         /\ Record(url, note, reg, emb).reg = reg
         /\ Record(url, note, reg, emb).emb = emb
BY DEF Records, Record

\* What a writer is.
LEMMA WriterKinds ==
  ASSUME StoreTypeOK, NEW w \in Writers
  PROVE  /\ writer \in [Writers -> {Free} \cup Savings]
         /\ writer[w] = Free \/ writer[w] \in Savings
         /\ Free.at = "free"
         /\ writer[w].at = "saving" => writer[w] \in Savings /\ writer[w] # Free
<1>1. writer \in [Writers -> {Free} \cup Savings]
  BY Zenon DEF StoreTypeOK, Savings
<1>2. Free.at = "free"
  BY DEF Free
<1>3. QED
  BY <1>1, <1>2

\* A request that begins, or is over, is no update of a row that is not there.
LEMMA OneWriter ==
  ASSUME StoreInv, NEW w \in Writers, NEW s \in {Free} \cup Savings,
         writer' = [writer EXCEPT ![w] = s], SoundUpdate(s)
  PROVE  writer' \in [Writers -> {Free} \cup Savings] /\ UpdatesOK'
<1>1. writer \in [Writers -> {Free} \cup Savings]
  BY WriterKinds DEF StoreInv
<1>2. writer' \in [Writers -> {Free} \cup Savings]
  BY <1>1
<1>3. ASSUME NEW v \in Writers PROVE SoundUpdate(writer'[v])
  <2>1. SoundUpdate(writer[v])
    BY DEF StoreInv, UpdatesOK
  <2>2. writer'[v] = s \/ writer'[v] = writer[v]
    BY <1>1
  <2>3. QED
    BY <2>1, <2>2
<1>4. QED
  BY <1>2, <1>3 DEF UpdatesOK, SoundUpdate

\* A step of one writer that leaves the table alone.
LEMMA WriterOnly ==
  ASSUME StoreInv, NEW w \in Writers, NEW s \in {Free} \cup Savings,
         writer' = [writer EXCEPT ![w] = s], SoundUpdate(s),
         UNCHANGED <<row, writes, serial, raced>>
  PROVE  StoreInv'
<1>1. writer' \in [Writers -> {Free} \cup Savings] /\ UpdatesOK'
  BY OneWriter
<1>2. StoreTypeOK'
  BY <1>1 DEF StoreInv, StoreTypeOK, Savings
<1>3. SavesAreSerial'
  BY DEF StoreInv, SavesAreSerial
<1>4. QED
  BY <1>1, <1>2, <1>3 DEF StoreInv

LEMMA RowType ==
  ASSUME StoreInv
  PROVE  /\ row \in Records \cup {NoRow} /\ serial \in Records \cup {NoRow}
         /\ writes \in Nat /\ raced \in BOOLEAN
         /\ row # NoRow => row \in Records
BY DEF StoreInv, StoreTypeOK

LEMMA RegisterKeeps ==
  ASSUME StoreInv, NEW w \in Writers, NEW url \in Urls, Register(w, url)
  PROVE  StoreInv'
<1> DEFINE reg == IF row = NoRow THEN writes ELSE row.reg
           saved == Record(url, "none", reg, FALSE)
           s == Saving("register", saved, row)
<1>1. reg \in Nat
  BY RowType, RecordFields
<1>2. saved \in Records
  BY <1>1, RecordType
<1>3. s \in Savings /\ SoundUpdate(s)
  BY <1>2, RowType DEF Saving, Savings, SoundUpdate
<1>4. writer' = [writer EXCEPT ![w] = s] /\ UNCHANGED <<row, writes, serial, raced>>
  BY DEF Register
<1>5. QED
  BY <1>3, <1>4, WriterOnly

LEMMA UpdateKeeps ==
  ASSUME StoreInv, NEW w \in Writers, NEW note \in Notes, Update(w, note)
  PROVE  StoreInv'
<1> DEFINE saved == [row EXCEPT !.note = note]
           s == Saving("update", saved, row)
<1>1. row \in Records
  BY RowType DEF Update
<1>2. saved = Record(row.url, note, row.reg, row.emb)
  BY <1>1, RecordFields
<1>3. saved \in Records /\ saved.url = row.url /\ saved.reg = row.reg
  <2>1. row.url \in Urls /\ row.reg \in Nat /\ row.emb \in BOOLEAN
    BY <1>1, RecordFields
  <2>2. QED
    BY <1>2, <2>1, RecordType
<1>4. s \in Savings /\ SoundUpdate(s)
  BY <1>1, <1>3 DEF Saving, Savings, SoundUpdate
<1>5. writer' = [writer EXCEPT ![w] = s] /\ UNCHANGED <<row, writes, serial, raced>>
  BY DEF Update
<1>6. QED
  BY <1>4, <1>5, WriterOnly

LEMMA SaveFailsKeeps ==
  ASSUME StoreInv, NEW w \in Writers, SaveFails(w)
  PROVE  StoreInv'
<1>1. SoundUpdate(Free)
  BY DEF SoundUpdate
<1>2. QED
  BY <1>1, WriterOnly DEF SaveFails

\* The upsert: the row and what it would be in series are records, and the same
\* as long as they were and the write is not spoilt.
LEMMA UpsertKeeps ==
  ASSUME StoreInv, NEW w \in Writers, NEW embedded \in BOOLEAN, Upsert(w, embedded)
  PROVE  StoreInv'
<1> DEFINE s == writer[w]
           saved == [s.saved EXCEPT !.emb = embedded]
<1>1. /\ s \in Savings /\ s # Free
      /\ row' = Upserted(saved) /\ serial' = Serially(s.op, saved)
      /\ raced' = (raced \/ Spoilt(w))
      /\ writer' = [writer EXCEPT ![w] = Free] /\ writes' = writes + 1
  BY WriterKinds DEF StoreInv, Upsert
<1>2. s.saved \in Records /\ s.read \in Records \cup {NoRow} /\ s.op \in {"register", "update"}
  BY <1>1 DEF Savings
<1>3. /\ s.saved.url \in Urls /\ s.saved.note \in Notes \cup {"none"} /\ s.saved.reg \in Nat
      /\ saved = Record(s.saved.url, s.saved.note, s.saved.reg, embedded)
  BY <1>2, RecordFields
<1>4. saved \in Records /\ saved.url = s.saved.url /\ saved.note = s.saved.note
      /\ saved.reg = s.saved.reg /\ saved.emb = embedded
  BY <1>3, RecordType
<1>5. ASSUME NEW r \in Records
      PROVE  /\ [saved EXCEPT !.reg = r.reg] = Record(saved.url, saved.note, r.reg, embedded)
             /\ [saved EXCEPT !.reg = r.reg] \in Records
             /\ Record(r.url, saved.note, r.reg, saved.emb)
                  = Record(r.url, saved.note, r.reg, embedded)
             /\ Record(r.url, saved.note, r.reg, saved.emb) \in Records
  <2>1. /\ r.url \in Urls /\ r.reg \in Nat
        /\ saved.note \in Notes \cup {"none"} /\ saved.emb = embedded /\ saved.url \in Urls
    BY <1>3, <1>4, RecordFields
  <2>2. [saved EXCEPT !.reg = r.reg] = Record(saved.url, saved.note, r.reg, embedded)
    <3>1. [saved EXCEPT !.reg = r.reg] = Record(saved.url, saved.note, r.reg, saved.emb)
      BY <1>4, <2>1, RecordFields
    <3>2. QED
      BY <2>1, <3>1
  <2>3. QED
    BY <1>4, <2>1, <2>2, RecordType
<1>6. row' \in Records /\ serial' \in Records \cup {NoRow}
  BY <1>1, <1>4, <1>5, RowType DEF Upserted, Serially
<1>7. (raced \/ Spoilt(w)) \in BOOLEAN /\ writes + 1 \in Nat
  BY RowType
<1>8. writer' \in [Writers -> {Free} \cup Savings] /\ UpdatesOK'
  <2>1. SoundUpdate(Free)
    BY DEF SoundUpdate
  <2>2. QED
    BY <1>1, <2>1, OneWriter
<1>9. StoreTypeOK'
  BY <1>1, <1>6, <1>7, <1>8 DEF StoreTypeOK, Savings
<1>10. SavesAreSerial'
  <2> SUFFICES ASSUME ~raced, ~Spoilt(w), row = serial PROVE row' = serial'
    BY <1>1 DEF StoreInv, SavesAreSerial
  <2>1. CASE s.op = "update"
    <3>1. s.read = row
      BY <2>1 DEF Spoilt
    <3>2. row \in Records /\ s.saved.url = row.url /\ s.saved.reg = row.reg
      BY <1>1, <2>1, <3>1 DEF StoreInv, UpdatesOK, SoundUpdate
    <3>3. row # NoRow
      BY <3>2, NoRowIsNoRecord
    <3>4. row' = Record(saved.url, saved.note, row.reg, embedded)
      BY <1>1, <1>5, <3>2, <3>3 DEF Upserted
    <3>5. serial' = Record(row.url, saved.note, row.reg, embedded)
      BY <1>1, <1>5, <2>1, <3>2, <3>3 DEF Serially
    <3>6. QED
      BY <1>4, <3>2, <3>4, <3>5
  <2>2. CASE s.op # "update"
    BY <1>1, <2>2 DEF Upserted, Serially
  <2>3. QED
    BY <2>1, <2>2
<1>11. QED
  BY <1>8, <1>9, <1>10 DEF StoreInv

LEMMA DeleteKeeps ==
  ASSUME StoreInv, Delete
  PROVE  StoreInv'
<1>1. row' = NoRow /\ serial' = NoRow /\ writes' = writes + 1 /\ UNCHANGED <<writer, raced>>
  BY DEF Delete
<1>2. writes' \in Nat
  BY <1>1, RowType
<1>3. StoreTypeOK'
  BY <1>1, <1>2 DEF StoreInv, StoreTypeOK
<1>4. UpdatesOK' /\ SavesAreSerial'
  BY <1>1 DEF StoreInv, UpdatesOK, SoundUpdate, SavesAreSerial
<1>5. QED
  BY <1>3, <1>4 DEF StoreInv

------------------------------------------------------------------------------
LEMMA StoreInitHolds == StoreInit => StoreInv
<1> SUFFICES ASSUME StoreInit PROVE StoreInv
  OBVIOUS
<1>1. writer \in [Writers -> {Free} \cup Savings] /\ UpdatesOK
  BY DEF StoreInit, UpdatesOK, SoundUpdate
<1>2. writes \in Nat
  BY DEF StoreInit
<1>3. raced \in BOOLEAN /\ row \in Records \cup {NoRow} /\ serial \in Records \cup {NoRow}
  BY Zenon DEF StoreInit
<1>4. StoreTypeOK
  BY <1>1, <1>2, <1>3 DEF StoreTypeOK, Savings
<1>5. QED
  BY <1>1, <1>4 DEF StoreInit, StoreInv, SavesAreSerial

LEMMA StoreStepKeeps == StoreInv /\ [StoreNext]_storeVars => StoreInv'
<1> SUFFICES ASSUME StoreInv, [StoreNext]_storeVars PROVE StoreInv'
  OBVIOUS
<1>1. ASSUME NEW w \in Writers,
             \/ \E url \in Urls : Register(w, url)
             \/ \E note \in Notes : Update(w, note)
             \/ \E embedded \in BOOLEAN : Upsert(w, embedded)
             \/ SaveFails(w)
      PROVE  StoreInv'
  BY <1>1, RegisterKeeps, UpdateKeeps, UpsertKeeps, SaveFailsKeeps
<1>2. CASE Delete
  BY <1>2, DeleteKeeps
<1>3. CASE UNCHANGED storeVars
  BY <1>3 DEF storeVars, StoreInv, StoreTypeOK, UpdatesOK, SoundUpdate, SavesAreSerial
<1>4. QED
  BY <1>1, <1>2, <1>3 DEF StoreNext

\* The inductive invariant holds in every reachable state.
THEOREM StoreInvariance == StoreSpec => []StoreInv
BY StoreInitHolds, StoreStepKeeps, PTL DEF StoreSpec

\* Every variable of the registry's store has its type.
THEOREM StoreTypeCorrect == StoreSpec => []StoreTypeOK
<1>1. StoreInv => StoreTypeOK
  BY DEF StoreInv
<1>2. QED
  BY <1>1, StoreInvariance, PTL

\* CloudSQLAgentStore.save: overlapping registrations, updates and deletes leave
\* the row they would have left one after the other, unless an update lost a
\* change or a save brought a deleted row back.
THEOREM OverlapsAreSerial == StoreSpec => []SavesAreSerial
<1>1. StoreInv => SavesAreSerial
  BY DEF StoreInv
<1>2. QED
  BY <1>1, StoreInvariance, PTL

------------------------------------------------------------------------------
(* Heartbeat.  The argument adds up one round: a sleep ends at most        *)
(* Interval after the last heartbeat, the registration Slowest later, the  *)
(* next heartbeat Slowest later still.                                     *)

Stages == {"boot", "greet", "register", "beat", "sleep"}
AgentStates == [at : Stages, due : Int]

\* No step of the agent is overdue.
OnTime == agent # Down => seconds <= agent.due

\* How long after the last heartbeat the step a is over at the latest.
Within(a) ==
  /\ a.at = "sleep" => a.due <= listed.beat + Interval
  /\ a.at = "register" => a.due <= listed.beat + Interval + Slowest
  /\ a.at = "beat" => a.due <= listed.beat + Interval + Slowest + Slowest

Round ==
  agent.at \in {"sleep", "register", "beat"} /\ ~missed =>
    /\ listed \in Rows
    /\ listed.beat \in Int
    /\ Within(agent)

BeatInv == BeatTypeOK /\ OnTime /\ Round

------------------------------------------------------------------------------
LEMMA BeatDurations ==
  Interval \in Int /\ Slowest \in Int /\ Interval >= 0 /\ Slowest >= 0
BY BeatIsNat

\* An agent that is not down is at a step that has a time it is due.
LEMMA AgentKinds ==
  ASSUME BeatTypeOK
  PROVE  /\ seconds \in Int
         /\ agent = Down \/ agent \in AgentStates
         /\ agent = Down => agent.at = "down"
         /\ agent.at # "down" => agent \in AgentStates /\ agent # Down /\ agent.at \in Stages /\ agent.due \in Int
<1>1. Down.at = "down"
  BY DEF Down
<1>2. agent = Down \/ agent \in AgentStates
  BY DEF BeatTypeOK, AgentStates, Stages
<1>3. \A a \in AgentStates : a.at \in Stages /\ a.due \in Int /\ a.at # "down"
  BY DEF AgentStates, Stages
<1>4. QED
  BY <1>1, <1>2, <1>3 DEF BeatTypeOK

\* At makes an agent of a step and a time.
LEMMA AtIsAgent ==
  ASSUME NEW step \in Stages, NEW due \in Int
  PROVE  /\ At(step, due) \in AgentStates
         /\ At(step, due).at = step /\ At(step, due).due = due
         /\ At(step, due) # Down
<1>1. At(step, due) \in AgentStates /\ At(step, due).at = step /\ At(step, due).due = due
  BY DEF At, AgentStates
<1>2. Down.at = "down" /\ step # "down"
  BY DEF Down, Stages
<1>3. QED
  BY <1>1, <1>2

\* The upserts of the two writers make rows, and a registration keeps the time
\* of the last heartbeat.
LEMMA UpsertsAreRows ==
  ASSUME BeatTypeOK
  PROVE  /\ Registered \in Rows /\ Seen \in Rows
         /\ Seen.beat = seconds
         /\ listed \in Rows => Registered.beat = listed.beat
<1>1. seconds \in Int /\ listed \in Rows \cup {Absent}
  BY DEF BeatTypeOK
<1>2. Absent \in Int \cup {Absent} /\ Absent \notin Rows
  BY AbsentIsNoRow
<1>3. CASE listed = Absent
  <2>1. /\ Registered = [registered |-> TRUE, beat |-> Absent]
        /\ Seen = [registered |-> FALSE, beat |-> seconds]
    BY <1>3 DEF Registered, Seen
  <2>2. QED
    BY <1>1, <1>2, <1>3, <2>1 DEF Rows
<1>4. CASE listed # Absent
  <2>1. listed \in Rows
    BY <1>1, <1>4
  <2>2. listed.registered \in BOOLEAN /\ listed.beat \in Int \cup {Absent}
    BY <2>1 DEF Rows
  <2>3. /\ Registered = [registered |-> TRUE, beat |-> listed.beat]
        /\ Seen = [registered |-> listed.registered, beat |-> seconds]
    BY <1>4, <2>2 DEF Registered, Seen
  <2>4. QED
    BY <1>1, <2>2, <2>3 DEF Rows
<1>5. QED
  BY <1>3, <1>4

\* A step of the agent that ends in a new step of it.
LEMMA NewStep ==
  ASSUME BeatInv, NEW step \in Stages, NEW d \in Int, d >= 0,
         agent' = At(step, seconds + d), UNCHANGED <<seconds, schema>>,
         listed' \in Rows \cup {Absent}, missed' \in BOOLEAN,
         step \in {"sleep", "register", "beat"} /\ ~missed' =>
           /\ listed' \in Rows
           /\ listed'.beat \in Int
           /\ step = "sleep" => seconds + d <= listed'.beat + Interval
           /\ step = "register" => seconds + d <= listed'.beat + Interval + Slowest
           /\ step = "beat" => seconds + d <= listed'.beat + Interval + Slowest + Slowest
  PROVE  BeatInv'
<1>1. seconds \in Int /\ seconds + d \in Int
  BY DEF BeatInv, BeatTypeOK
<1>2. /\ agent' \in AgentStates /\ agent'.at = step /\ agent'.due = seconds + d
  BY <1>1, AtIsAgent
<1>3. BeatTypeOK'
  BY <1>2 DEF BeatInv, BeatTypeOK, AgentStates, Stages
<1>4. OnTime'
  BY <1>1, <1>2 DEF OnTime
<1>5. Round'
  BY <1>2 DEF Round, Within
<1>6. QED
  BY <1>3, <1>4, <1>5 DEF BeatInv

------------------------------------------------------------------------------
LEMMA BeatInitHolds == BeatInit => BeatInv
<1> SUFFICES ASSUME BeatInit PROVE BeatInv
  OBVIOUS
<1>1. Down.at = "down"
  BY DEF Down
<1>2. BeatTypeOK
  <2>1. seconds \in Int
    BY DEF BeatInit
  <2>2. schema \in BOOLEAN /\ missed \in BOOLEAN /\ listed \in Rows \cup {Absent}
    BY Zenon DEF BeatInit
  <2>3. agent \in {Down} \cup [at : {"boot", "greet", "register", "beat", "sleep"}, due : Int]
    BY Zenon DEF BeatInit
  <2>4. QED
    BY <2>1, <2>2, <2>3 DEF BeatTypeOK
<1>3. QED
  BY <1>1, <1>2 DEF BeatInit, BeatInv, OnTime, Round

LEMMA BeatStepKeeps == BeatInv /\ [BeatNext]_beatVars => BeatInv'
<1> SUFFICES ASSUME BeatInv, [BeatNext]_beatVars PROVE BeatInv'
  OBVIOUS
<1> USE BeatDurations
<1>1. /\ BeatTypeOK /\ OnTime /\ Round
      /\ seconds \in Int /\ listed \in Rows \cup {Absent} /\ missed \in BOOLEAN
  BY DEF BeatInv, BeatTypeOK
<1>2. /\ Registered \in Rows /\ Seen \in Rows
      /\ Seen.beat = seconds
      /\ listed \in Rows => Registered.beat = listed.beat
  BY <1>1, UpsertsAreRows
<1>3. agent.at # "down" => agent # Down /\ agent.due \in Int /\ seconds <= agent.due
  BY <1>1, AgentKinds DEF OnTime
<1>4. "boot" \in Stages /\ "greet" \in Stages /\ "register" \in Stages /\ "beat" \in Stages /\ "sleep" \in Stages
  BY DEF Stages
<1>5. CASE Boot
  BY <1>1, <1>4, <1>5, NewStep DEF Boot
<1>6. CASE BootRegistered
  BY <1>1, <1>2, <1>4, <1>6, NewStep DEF BootRegistered
<1>7. CASE BootUnregistered
  <2>1. listed' \in Rows \cup {Absent}
    BY <1>1, <1>2, <1>7 DEF BootUnregistered
  <2>2. QED
    BY <1>1, <1>4, <1>7, <2>1, NewStep DEF BootUnregistered
<1>8. CASE Wake
  <2>1. agent.at = "sleep" /\ seconds = agent.due /\ missed' = missed /\ listed' = listed
    BY <1>8 DEF Wake
  <2>2. ~missed => listed \in Rows /\ listed.beat \in Int /\ seconds <= listed.beat + Interval
    BY <1>1, <2>1 DEF Round, Within
  <2>3. ~missed => seconds + Slowest <= listed.beat + Interval + Slowest
    BY <1>1, <2>2
  <2>4. QED
    BY <1>1, <1>4, <1>8, <2>1, <2>2, <2>3, NewStep DEF Wake
<1>9. CASE Reregistered
  <2>1. agent.at = "register" /\ listed' = Registered /\ missed' = missed
    BY <1>9 DEF Reregistered
  <2>2. ~missed => /\ listed \in Rows /\ listed.beat \in Int
                   /\ agent.due <= listed.beat + Interval + Slowest
    BY <1>1, <2>1 DEF Round, Within
  <2>3. agent.due \in Int /\ seconds <= agent.due
    BY <1>3, <2>1
  <2>4. ~missed => seconds + Slowest <= listed.beat + Interval + Slowest + Slowest
    BY <1>1, <2>2, <2>3
  <2>5. listed'.beat = Registered.beat
    BY <2>1
  <2>6. QED
    BY <1>1, <1>2, <1>4, <1>9, <2>1, <2>2, <2>4, <2>5, NewStep DEF Reregistered
<1>10. CASE ReregisterFails
  <2>1. listed' \in Rows \cup {Absent}
    BY <1>1, <1>2, <1>10 DEF ReregisterFails
  <2>2. QED
    BY <1>1, <1>4, <1>10, <2>1, NewStep DEF ReregisterFails
<1>11. CASE Beat
  <2>1. listed' = Seen /\ listed'.beat = seconds
    BY <1>2, <1>11 DEF Beat
  <2>2. QED
    BY <1>1, <1>2, <1>4, <1>11, <2>1, NewStep DEF Beat
<1>12. CASE BeatFails
  BY <1>1, <1>4, <1>12, NewStep DEF BeatFails
<1>13. CASE Stop
  <2>1. Down.at = "down"
    BY DEF Down
  <2>2. BeatTypeOK'
    BY <1>1, <1>13 DEF Stop, BeatTypeOK
  <2>3. QED
    BY <1>13, <2>1, <2>2 DEF Stop, BeatInv, OnTime, Round
<1>14. CASE Deleted
  <2>1. BeatTypeOK'
    BY <1>1, <1>14 DEF Deleted, BeatTypeOK
  <2>2. QED
    BY <1>1, <1>14, <2>1 DEF Deleted, BeatInv, OnTime, Round
<1>15. CASE Second
  <2>1. BeatTypeOK'
    BY <1>1, <1>15 DEF Second, BeatTypeOK
  <2>2. OnTime'
    <3>1. agent # Down => agent.at # "down"
      BY <1>1, AgentKinds DEF AgentStates, Stages
    <3>2. QED
      BY <1>1, <1>3, <1>15, <3>1 DEF Second, OnTime
  <2>3. Round'
    BY <1>1, <1>15 DEF Second, Round, Within
  <2>4. QED
    BY <2>1, <2>2, <2>3 DEF BeatInv
<1>16. CASE UNCHANGED beatVars
  BY <1>1, <1>16 DEF beatVars, BeatInv, BeatTypeOK, OnTime, Round, Within
<1>17. QED
  BY <1>5, <1>6, <1>7, <1>8, <1>9, <1>10, <1>11, <1>12, <1>13, <1>14, <1>15, <1>16 DEF BeatNext

\* The inductive invariant holds in every reachable state.
THEOREM RoundInvariance == BeatSpec => []BeatInv
BY BeatInitHolds, BeatStepKeeps, PTL DEF BeatSpec

\* Every variable of the agent that registers itself has its type.
THEOREM BeatTypeCorrect == BeatSpec => []BeatTypeOK
<1>1. BeatInv => BeatTypeOK
  BY DEF BeatInv
<1>2. QED
  BY <1>1, RoundInvariance, PTL

\* With calls that take less than half of what int(ttl * 0.7) leaves of the time
\* to live, the background task of giulia_agent.py keeps its agent among the
\* live ones until a call fails or the row is deleted.
THEOREM BeatingKeepsAlive == BeatSpec => []AliveWhileBeating
<1>1. BeatInv => AliveWhileBeating
  <2> SUFFICES ASSUME BeatInv, agent.at \in {"sleep", "register", "beat"}, ~missed
               PROVE  IsAlive
    BY DEF AliveWhileBeating
  <2>1. agent.due \in Int /\ seconds <= agent.due /\ seconds \in Int
    BY AgentKinds DEF BeatInv, OnTime
  <2>2. listed \in Rows /\ listed.beat \in Int /\ Within(agent)
    BY DEF BeatInv, Round
  <2>3. agent.due <= listed.beat + Interval + Slowest + Slowest
    BY <2>1, <2>2, BeatDurations DEF Within
  <2>4. TTL \in Int /\ Interval + Slowest + Slowest < TTL
    BY BeatIsNat, BeatMargin, BeatDurations
  <2>5. seconds - listed.beat < TTL
    BY <2>1, <2>2, <2>3, <2>4, BeatDurations
  <2>6. listed # Absent /\ listed.beat # Absent
    BY <2>2, AbsentIsNoTime, AbsentIsNoRow
  <2>7. QED
    BY <2>5, <2>6 DEF IsAlive
<1>2. QED
  BY <1>1, RoundInvariance, PTL

------------------------------------------------------------------------------
(* Discovery.  The invariant follows the age of an answer: an entry of the *)
(* cache is at most a time to live and an answer's delay older than the    *)
(* moment its record was last held, and an answer under way at most that   *)
(* delay; an entry once there is replaced and never dropped.               *)

Answers == Found \cup {Nobody}

\* The history of what the registry held is complete up to now and no further.
HistoryUpToDate ==
  /\ lastHeld[published] = moment
  /\ \A r \in Answers : lastHeld[r] <= moment

\* An entry is younger than a time to live and an answer's delay after its
\* record was held for the last time.
EntryOK == entry # NoEntry => entry.until <= lastHeld[entry.record] + Answering + RecordTTL

\* An answer under way is no later than due, and was so an answer's delay before.
CallOK(s) ==
  /\ s.at = "told" => moment <= s.due /\ s.due <= lastHeld[s.answer] + Answering
  /\ s.at \in {"card", "missed"} /\ ~s.stale =>
       \/ s.age <= Answering
       \/ s.got # Nobody /\ s.age < RecordTTL + Answering

\* An agent that has been resolved has an entry: entries are replaced, not dropped.
KnownHasEntry == known => entry # NoEntry

DiscoveryInv ==
  DiscoveryTypeOK /\ HistoryUpToDate /\ EntryOK /\ KnownHasEntry /\ \A c \in Calls : CallOK(call[c])

------------------------------------------------------------------------------
LEMMA EntryKinds ==
  ASSUME DiscoveryInv
  PROVE  /\ entry \in {NoEntry} \cup Entries
         /\ entry # NoEntry => entry \in Entries /\ entry.record \in Found /\ entry.record # Nobody
                               /\ entry.until \in Nat
         /\ entry \in Entries => entry # NoEntry
         /\ moment \in Nat /\ RecordTTL \in Nat /\ Answering \in Nat
         /\ lastHeld \in [Answers -> Int]
         /\ \A e \in Entries : e # NoEntry
<1>1. \A e \in Entries : e.until # -1
  BY DEF Entries
<1>2. NoEntry.until = -1
  BY DEF NoEntry
<1>3. \A e \in Entries : e # NoEntry
  BY <1>1, <1>2
<1>4. \A r \in Found : r # Nobody
  BY NobodyIsNotFound
<1>5. \A e \in Entries : e.record \in Found /\ e.until \in Nat
  BY DEF Entries
<1>6. entry \in {NoEntry} \cup Entries
  BY DEF DiscoveryInv, DiscoveryTypeOK
<1>7. moment \in Nat /\ lastHeld \in [Answers -> Int]
  BY DEF DiscoveryInv, DiscoveryTypeOK, Answers
<1>8. QED
  BY <1>3, <1>4, <1>5, <1>6, <1>7, DiscoveryTimes

\* What a call is follows from where it is.
LEMMA CallKinds ==
  ASSUME DiscoveryInv, NEW c \in Calls
  PROVE  /\ call \in [Calls -> CallStates]
         /\ call[c] \in CallStates /\ CallOK(call[c])
         /\ call[c].at # "idle" => call[c].left \in Nat
         /\ call[c].at = "told" => call[c].answer \in Answers /\ call[c].due \in Int
         /\ call[c].at = "sleep" => call[c].left # 0
         /\ call[c].at \in {"card", "missed"} => call[c] \in Outcomes
         /\ call[c] = Idle <=> call[c].at = "idle"
<1> DEFINE s == call[c]
<1>1. call \in [Calls -> CallStates] /\ s \in CallStates /\ CallOK(s)
  BY DEF DiscoveryInv, DiscoveryTypeOK
<1>2. CASE s = Idle
  BY <1>1, <1>2 DEF Idle
<1>3. CASE s \in [at : {"try", "asked"}, left : Nat]
  BY <1>1, <1>3 DEF Idle
<1>4. CASE s \in [at : {"told"}, left : Nat, answer : Found \cup {Nobody}, due : Int]
  BY <1>1, <1>4 DEF Idle, Answers
<1>5. CASE s \in [at : {"sleep"}, left : Nat \ {0}, due : Int]
  BY <1>1, <1>5 DEF Idle
<1>6. CASE s \in Outcomes
  BY <1>1, <1>6 DEF Idle, Outcomes
<1>7. QED
  BY <1>1, <1>2, <1>3, <1>4, <1>5, <1>6 DEF CallStates

\* One call moves, and perhaps the token with it.
LEMMA CallMoves ==
  ASSUME DiscoveryInv, NEW c \in Calls, NEW s \in CallStates, CallOK(s), Goes(c, s),
         token' \in {"unset", "blank", "good"},
         UNCHANGED <<moment, published, lastHeld, entry, known>>
  PROVE  DiscoveryInv'
<1>1. DiscoveryTypeOK'
  BY DEF DiscoveryInv, DiscoveryTypeOK, Goes
<1>2. HistoryUpToDate' /\ EntryOK' /\ KnownHasEntry'
  BY DEF DiscoveryInv, HistoryUpToDate, EntryOK, KnownHasEntry
<1>3. \A d \in Calls : CallOK(call[d])'
  BY DEF DiscoveryInv, DiscoveryTypeOK, Goes, CallOK
<1>4. QED
  BY <1>1, <1>2, <1>3 DEF DiscoveryInv

LEMMA StartKeeps ==
  ASSUME DiscoveryInv, NEW c \in Calls, NEW tries \in 1..MaxTries, Start(c, tries)
  PROVE  DiscoveryInv'
<1>1. tries - 1 \in Nat
  BY DiscoveryTimes
<1>2. PICK s : s = [at |-> "try", left |-> tries - 1]
  OBVIOUS
<1>3. s \in CallStates /\ CallOK(s)
  BY <1>1, <1>2 DEF CallStates, CallOK
<1>4. token' \in {"unset", "blank", "good"}
  BY DEF Start, DiscoveryInv, DiscoveryTypeOK
<1>5. QED
  BY <1>2, <1>3, <1>4, CallMoves DEF Start

LEMMA FromCacheKeeps ==
  ASSUME DiscoveryInv, NEW c \in Calls, FromCache(c)
  PROVE  DiscoveryInv'
<1>1. /\ entry.record \in Found /\ entry.record # Nobody /\ entry.until \in Nat
      /\ moment < entry.until
      /\ entry.until <= lastHeld[entry.record] + Answering + RecordTTL
      /\ entry.record \in Answers /\ lastHeld[entry.record] \in Int
  BY EntryKinds DEF FromCache, Fresh, DiscoveryInv, EntryOK, Answers
<1>2. moment - lastHeld[entry.record] < RecordTTL + Answering
  BY <1>1, EntryKinds
<1>3. call[c].left \in Nat
  BY CallKinds DEF FromCache
<1>4. PICK at \in {"card", "missed"} : at = IF entry.record \in Places THEN "card" ELSE "missed"
  OBVIOUS
<1>5. PICK s : s = [at |-> at, left |-> call[c].left, got |-> entry.record, stale |-> FALSE,
                    age |-> moment - lastHeld[entry.record]]
  OBVIOUS
<1>6. s \in CallStates /\ CallOK(s)
  <2>1. /\ s \in Outcomes /\ s.got # Nobody /\ s.age < RecordTTL + Answering
        /\ s.at \in {"card", "missed"}
    BY <1>1, <1>2, <1>3, <1>5, EntryKinds DEF Outcomes
  <2>2. QED
    BY <2>1 DEF CallStates, CallOK
<1>7. Goes(c, s)
  BY <1>4, <1>5 DEF FromCache, Resolved
<1>8. token' \in {"unset", "blank", "good"}
  BY DEF FromCache, DiscoveryInv, DiscoveryTypeOK
<1>9. QED
  BY <1>6, <1>7, <1>8, CallMoves DEF FromCache

LEMMA AskKeeps ==
  ASSUME DiscoveryInv, NEW c \in Calls, Ask(c)
  PROVE  DiscoveryInv'
<1>1. call[c].left \in Nat
  BY CallKinds DEF Ask
<1>2. PICK s : s = [at |-> "asked", left |-> call[c].left]
  OBVIOUS
<1>3. s \in CallStates /\ CallOK(s)
  BY <1>1, <1>2 DEF CallStates, CallOK
<1>4. token' \in {"unset", "blank", "good"}
  BY DEF Ask, DiscoveryInv, DiscoveryTypeOK
<1>5. QED
  BY <1>2, <1>3, <1>4, CallMoves DEF Ask

LEMMA RegistryReadsKeeps ==
  ASSUME DiscoveryInv, NEW c \in Calls, RegistryReads(c)
  PROVE  DiscoveryInv'
<1>1. call[c].left \in Nat
  BY CallKinds DEF RegistryReads
<1>2. published \in Answers /\ lastHeld[published] = moment
  BY DEF DiscoveryInv, DiscoveryTypeOK, HistoryUpToDate, Answers
<1>3. PICK s : s = [at |-> "told", left |-> call[c].left, answer |-> published,
                    due |-> moment + Answering]
  OBVIOUS
<1>4. s \in [at : {"told"}, left : Nat, answer : Found \cup {Nobody}, due : Int]
  BY <1>1, <1>2, <1>3, EntryKinds DEF Answers
<1>5. CallOK(s)
  BY <1>2, <1>3, EntryKinds DEF CallOK
<1>6. token' \in {"unset", "blank", "good"}
  BY DEF RegistryReads, DiscoveryInv, DiscoveryTypeOK
<1>7. QED
  BY <1>3, <1>4, <1>5, <1>6, CallMoves DEF RegistryReads, CallStates

\* The answer: what it says was so an answer's delay ago at most.
LEMMA ToldKeeps ==
  ASSUME DiscoveryInv, NEW c \in Calls, Told(c)
  PROVE  DiscoveryInv'
<1> DEFINE record == call[c].answer
<1>1. /\ record \in Answers /\ lastHeld[record] \in Int /\ call[c].left \in Nat
      /\ moment <= lastHeld[record] + Answering
  BY CallKinds, EntryKinds DEF Told, CallOK
<1>2. PICK at \in {"card", "missed"} : at = IF record \in Places THEN "card" ELSE "missed"
  OBVIOUS
<1>3. PICK s : s = [at |-> at, left |-> call[c].left, got |-> record, stale |-> FALSE,
                    age |-> moment - lastHeld[record]]
  OBVIOUS
<1>4. s \in CallStates /\ CallOK(s)
  <2> HIDE DEF record
  <2>1. moment - lastHeld[record] <= Answering
    BY <1>1, EntryKinds
  <2>2. s \in Outcomes /\ s.age <= Answering /\ s.at \in {"card", "missed"}
    BY <1>1, <1>3, <2>1, EntryKinds DEF Outcomes, Answers
  <2>3. QED
    BY <2>2 DEF CallStates, CallOK
<1>5. Goes(c, s) /\ UNCHANGED <<moment, published, lastHeld, token>>
  BY <1>2, <1>3 DEF Told, Resolved
<1>6. CASE record = Nobody
  <2>1. UNCHANGED <<entry, known>>
    BY <1>6 DEF Told, Remembered, DiscoveryInv, DiscoveryTypeOK
  <2>2. QED
    BY <1>4, <1>5, <2>1, CallMoves DEF DiscoveryInv, DiscoveryTypeOK
<1>7. CASE record # Nobody
  <2>1. entry' = [record |-> record, until |-> moment + RecordTTL] /\ known' = TRUE
    BY <1>7 DEF Told, Remembered, DiscoveryInv, DiscoveryTypeOK
  <2>2. entry' \in Entries /\ entry'.record = record /\ entry'.until = moment + RecordTTL
    BY <1>1, <1>7, <2>1, EntryKinds DEF Entries, Answers
  <2>3. entry' # NoEntry
    BY <2>2, EntryKinds
  <2>4. entry'.until <= lastHeld[entry'.record] + Answering + RecordTTL
    BY <1>1, <2>2, EntryKinds
  <2>5. DiscoveryTypeOK'
    BY <1>4, <1>5, <2>1, <2>2 DEF DiscoveryInv, DiscoveryTypeOK, Goes
  <2>6. HistoryUpToDate' /\ EntryOK' /\ KnownHasEntry'
    BY <1>5, <2>3, <2>4 DEF DiscoveryInv, HistoryUpToDate, EntryOK, KnownHasEntry
  <2>7. \A d \in Calls : CallOK(call[d])'
    BY <1>4, <1>5 DEF DiscoveryInv, DiscoveryTypeOK, Goes, CallOK
  <2>8. QED
    BY <2>5, <2>6, <2>7 DEF DiscoveryInv
<1>8. QED
  BY <1>6, <1>7

\* A failure is stale by definition; what it answers is the entry's record, if any.
LEMMA OnFailureIsRecord ==
  ASSUME DiscoveryInv
  PROVE  OnFailure \in Answers /\ (known => OnFailure # Nobody)
BY EntryKinds DEF OnFailure, Answers, DiscoveryInv, KnownHasEntry

LEMMA AskFailsKeeps ==
  ASSUME DiscoveryInv, NEW c \in Calls, AskFails(c)
  PROVE  DiscoveryInv'
<1>1. PICK record \in Answers : record = OnFailure
  BY OnFailureIsRecord
<1>2. call[c].left \in Nat
  BY CallKinds DEF AskFails
<1>3. PICK at \in {"card", "missed"} : at = IF record \in Places THEN "card" ELSE "missed"
  OBVIOUS
<1>4. PICK s : s = [at |-> at, left |-> call[c].left, got |-> record, stale |-> TRUE,
                    age |-> moment - lastHeld[record]]
  OBVIOUS
<1>5. s \in CallStates /\ CallOK(s)
  <2>1. moment - lastHeld[record] \in Int
    BY EntryKinds
  <2>2. s \in Outcomes /\ s.stale
    BY <1>2, <1>4, <2>1 DEF Outcomes, Answers
  <2>3. s.at \in {"card", "missed"}
    BY <2>2 DEF Outcomes
  <2>4. QED
    BY <2>2, <2>3 DEF CallStates, CallOK
<1>6. Goes(c, s)
  BY <1>1, <1>3, <1>4 DEF AskFails, Resolved
<1>7. token' \in {"unset", "blank", "good"}
  BY DEF AskFails, DiscoveryInv, DiscoveryTypeOK
<1>8. QED
  BY <1>5, <1>6, <1>7, CallMoves DEF AskFails

\* The card, the pause between attempts, and the end of the call.
LEMMA RestKeeps ==
  ASSUME DiscoveryInv, NEW c \in Calls,
         CardFetched(c) \/ CardFails(c) \/ Retry(c) \/ Awake(c)
  PROVE  DiscoveryInv'
<1>1. token' \in {"unset", "blank", "good"} /\ UNCHANGED <<moment, published, lastHeld, entry, known>>
  BY DEF CardFetched, CardFails, Retry, Awake, DiscoveryInv, DiscoveryTypeOK
<1>2. Idle \in CallStates /\ CallOK(Idle)
  BY DEF CallStates, CallOK, Idle
<1>3. CASE Goes(c, Idle)
  BY <1>1, <1>2, <1>3, CallMoves
<1>4. CASE CardFails(c)
  <2>1. call[c] \in Outcomes /\ call[c].at = "card" /\ CallOK(call[c])
    BY <1>4, CallKinds DEF CardFails
  <2>2. PICK s : s = [call[c] EXCEPT !.at = "missed"]
    OBVIOUS
  <2>3. s \in Outcomes /\ s.at = "missed" /\ s.stale = call[c].stale /\ s.age = call[c].age
        /\ s.got = call[c].got
    BY <2>1, <2>2 DEF Outcomes
  <2>4. s \in CallStates /\ CallOK(s)
    BY <2>1, <2>3 DEF CallStates, CallOK
  <2>5. Goes(c, s)
    BY <1>4, <2>2 DEF CardFails
  <2>6. QED
    BY <1>1, <2>4, <2>5, CallMoves
<1>5. CASE Retry(c) /\ call[c].left > 0
  <2>1. call[c].left \in Nat \ {0} /\ moment + RetryDelay \in Int
    BY <1>5, CallKinds, EntryKinds, DiscoveryTimes DEF Retry
  <2>2. PICK s : s = [at |-> "sleep", left |-> call[c].left, due |-> moment + RetryDelay]
    OBVIOUS
  <2>3. s \in CallStates /\ CallOK(s)
    BY <2>1, <2>2 DEF CallStates, CallOK
  <2>4. Goes(c, s)
    BY <1>5, <2>2 DEF Retry
  <2>5. QED
    BY <1>1, <2>3, <2>4, CallMoves
<1>6. CASE Awake(c)
  <2>1. call[c].left - 1 \in Nat
    BY <1>6, CallKinds DEF Awake
  <2>2. PICK s : s = [at |-> "try", left |-> call[c].left - 1]
    OBVIOUS
  <2>3. s \in CallStates /\ CallOK(s)
    BY <2>1, <2>2 DEF CallStates, CallOK
  <2>4. Goes(c, s)
    BY <1>6, <2>2 DEF Awake
  <2>5. QED
    BY <1>1, <2>3, <2>4, CallMoves
<1>7. QED
  BY <1>3, <1>4, <1>5, <1>6 DEF CardFetched, Retry

\* The history only grows, so what was recent enough stays so.
LEMMA HistoryGrows ==
  ASSUME DiscoveryInv, UNCHANGED <<token, entry, known, call>>,
         moment' \in Nat, published' \in Answers, lastHeld' \in [Answers -> Int],
         HistoryUpToDate', \A r \in Answers : lastHeld[r] <= lastHeld'[r],
         \A c \in Calls : call[c].at = "told" => moment' <= call[c].due
  PROVE  DiscoveryInv'
<1>1. DiscoveryTypeOK'
  BY DEF DiscoveryInv, DiscoveryTypeOK, Answers
<1>2. EntryOK'
  BY EntryKinds DEF DiscoveryInv, EntryOK, Answers
<1>3. KnownHasEntry'
  BY DEF DiscoveryInv, KnownHasEntry
<1>4. ASSUME NEW c \in Calls
      PROVE  CallOK(call[c])'
  <2>1. call[c].at = "told" =>
          lastHeld[call[c].answer] \in Int /\ lastHeld'[call[c].answer] \in Int
          /\ lastHeld[call[c].answer] <= lastHeld'[call[c].answer] /\ call[c].due \in Int
          /\ call[c].due <= lastHeld[call[c].answer] + Answering
    BY CallKinds, EntryKinds DEF CallOK
  <2>2. QED
    BY <2>1, CallKinds, EntryKinds DEF CallOK
<1>5. QED
  BY <1>1, <1>2, <1>3, <1>4 DEF DiscoveryInv

LEMMA PublishKeeps ==
  ASSUME DiscoveryInv, NEW record \in Found \cup {Nobody}, Publish(record)
  PROVE  DiscoveryInv'
<1>1. /\ moment' = moment /\ published' = record
      /\ lastHeld' = [lastHeld EXCEPT ![record] = moment]
      /\ UNCHANGED <<token, entry, known, call>> /\ record \in Answers
  BY DEF Publish, Answers
<1>2. lastHeld' \in [Answers -> Int] /\ moment' \in Nat
  BY <1>1, EntryKinds
<1>3. HistoryUpToDate' /\ \A r \in Answers : lastHeld[r] <= lastHeld'[r]
  BY <1>1, EntryKinds DEF DiscoveryInv, HistoryUpToDate
<1>4. \A c \in Calls : call[c].at = "told" => moment' <= call[c].due
  BY <1>1 DEF DiscoveryInv, CallOK
<1>5. QED
  BY <1>1, <1>2, <1>3, <1>4, HistoryGrows

LEMMA PassMomentKeeps ==
  ASSUME DiscoveryInv, PassMoment
  PROVE  DiscoveryInv'
<1>1. /\ moment' = moment + 1 /\ published' = published
      /\ lastHeld' = [lastHeld EXCEPT ![published] = moment + 1]
      /\ UNCHANGED <<token, entry, known, call>> /\ published \in Answers
  BY DEF PassMoment, Answers, DiscoveryInv, DiscoveryTypeOK
<1>2. lastHeld' \in [Answers -> Int] /\ moment' \in Nat
  BY <1>1, EntryKinds
<1>3. HistoryUpToDate' /\ \A r \in Answers : lastHeld[r] <= lastHeld'[r]
  BY <1>1, EntryKinds DEF DiscoveryInv, HistoryUpToDate
<1>4. \A c \in Calls : call[c].at = "told" => moment' <= call[c].due
  BY <1>1, CallKinds, EntryKinds DEF PassMoment
<1>5. QED
  BY <1>1, <1>2, <1>3, <1>4, HistoryGrows

------------------------------------------------------------------------------
LEMMA DiscoveryInitHolds == DiscoveryInit => DiscoveryInv
<1> SUFFICES ASSUME DiscoveryInit PROVE DiscoveryInv
  OBVIOUS
<1>1. /\ moment = 0 /\ published = Nobody /\ token = "unset" /\ entry = NoEntry /\ known = FALSE
      /\ lastHeld = [r \in Found \cup {Nobody} |-> IF r = Nobody THEN 0 ELSE Never]
      /\ call = [c \in Calls |-> Idle]
  BY DEF DiscoveryInit
<1>2. Idle \in CallStates /\ CallOK(Idle)
  BY DEF CallStates, CallOK, Idle
<1>3. Never \in Int /\ Never <= 0
  BY DEF Never
<1>4. DiscoveryTypeOK
  <2>1. lastHeld \in [Found \cup {Nobody} -> Int]
    BY <1>1, <1>3
  <2>2. call \in [Calls -> CallStates]
    BY <1>1, <1>2
  <2>3. QED
    BY <1>1, <2>1, <2>2 DEF DiscoveryTypeOK
<1>5. HistoryUpToDate
  BY <1>1, <1>3 DEF HistoryUpToDate, Answers
<1>6. QED
  BY <1>1, <1>2, <1>4, <1>5 DEF DiscoveryInv, EntryOK, KnownHasEntry

LEMMA DiscoveryStepKeeps == DiscoveryInv /\ [DiscoveryNext]_discoveryVars => DiscoveryInv'
<1> SUFFICES ASSUME DiscoveryInv, [DiscoveryNext]_discoveryVars PROVE DiscoveryInv'
  OBVIOUS
<1>1. ASSUME NEW c \in Calls, NEW tries \in 1..MaxTries, Start(c, tries)
      PROVE  DiscoveryInv'
  BY <1>1, StartKeeps
<1>2. ASSUME NEW c \in Calls, FromCache(c) \/ Ask(c) \/ RegistryReads(c) \/ Told(c) \/ AskFails(c)
      PROVE  DiscoveryInv'
  BY <1>2, FromCacheKeeps, AskKeeps, RegistryReadsKeeps, ToldKeeps, AskFailsKeeps
<1>3. ASSUME NEW c \in Calls, CardFetched(c) \/ CardFails(c) \/ Retry(c) \/ Awake(c)
      PROVE  DiscoveryInv'
  BY <1>3, RestKeeps
<1>4. ASSUME NEW record \in Found \cup {Nobody}, Publish(record)
      PROVE  DiscoveryInv'
  BY <1>4, PublishKeeps
<1>5. CASE PassMoment
  BY <1>5, PassMomentKeeps
<1>6. CASE UNCHANGED discoveryVars
  <2>1. UNCHANGED <<moment, published, lastHeld, token, entry, known, call>>
    BY <1>6 DEF discoveryVars
  <2>2. QED
    BY <2>1 DEF DiscoveryInv, DiscoveryTypeOK, HistoryUpToDate, EntryOK, KnownHasEntry, CallOK
<1>7. QED
  BY <1>1, <1>2, <1>3, <1>4, <1>5, <1>6 DEF DiscoveryNext

THEOREM DiscoveryInvariance == DiscoverySpec => []DiscoveryInv
BY DiscoveryInitHolds, DiscoveryStepKeeps, PTL DEF DiscoverySpec

\* The state of discovery has its type.
THEOREM DiscoveryTypeCorrect == DiscoverySpec => []DiscoveryTypeOK
<1>1. DiscoveryInv => DiscoveryTypeOK
  BY DEF DiscoveryInv
<1>2. QED
  BY <1>1, DiscoveryInvariance, PTL

\* resolve_agent answers with what the registry holds, give or take one time to
\* live and one answer's delay, unless the request failed.
THEOREM ResolutionsAreRecent == DiscoverySpec => []ResolvedIsRecent
<1>1. DiscoveryInv => ResolvedIsRecent
  BY DEF DiscoveryInv, CallOK, ResolvedIsRecent
<1>2. QED
  BY <1>1, DiscoveryInvariance, PTL

\* When the registry fails, resolve_agent falls back on the expired entry, and
\* there is one for every agent that was ever resolved.
THEOREM OutagesForgetNobody == DiscoverySpec => OutageForgetsNobody
<1> DEFINE A(c) == Resolves(c) /\ known /\ call'[c].stale => call'[c].got # Nobody
<1>1. ASSUME DiscoveryInv, [DiscoveryNext]_discoveryVars, NEW c \in Calls,
             Resolves(c), known, call'[c].stale
      PROVE  call'[c].got # Nobody
  <2>1. DiscoveryInv'
    BY <1>1, DiscoveryStepKeeps
  <2>2. call \in [Calls -> CallStates] /\ call'[c].at # call[c].at
    BY <1>1, CallKinds DEF Resolves
  <2>3. ASSUME NEW d \in Calls, AskFails(d)
        PROVE  call'[c].got # Nobody
    <3>1. c = d
      BY <2>2, <2>3 DEF AskFails, Resolved, Goes
    <3>2. call'[c].got = OnFailure
      BY <2>2, <2>3, <3>1 DEF AskFails, Resolved, Goes
    <3>3. QED
      BY <1>1, <3>2, OnFailureIsRecord
  <2>4. ASSUME NEW d \in Calls, FromCache(d) \/ Told(d)
        PROVE  FALSE
    <3>1. c = d
      BY <2>2, <2>4 DEF FromCache, Told, Resolved, Goes
    <3>2. call'[c].stale = FALSE
      BY <2>2, <2>4, <3>1 DEF FromCache, Told, Resolved, Goes
    <3>3. QED
      BY <1>1, <3>2
  <2>5. ASSUME NEW d \in Calls,
               \/ \E tries \in 1..MaxTries : Start(d, tries)
               \/ Ask(d) \/ RegistryReads(d) \/ CardFetched(d) \/ CardFails(d) \/ Retry(d) \/ Awake(d)
        PROVE  FALSE
    <3>1. \E s : (call' = [call EXCEPT ![d] = s] /\ s.at \notin {"card", "missed"}) \/ CardFails(d)
      BY <2>5 DEF Start, Ask, RegistryReads, CardFetched, Retry, Awake, Goes, Idle
    <3>2. QED
      BY <1>1, <2>2, <2>5, <3>1 DEF Resolves, CardFails, Goes
  <2>6. CASE \/ \E record \in Found \cup {Nobody} : Publish(record)
             \/ PassMoment \/ UNCHANGED discoveryVars
    BY <2>2, <2>6 DEF Publish, PassMoment, discoveryVars
  <2>7. QED
    BY <1>1, <2>3, <2>4, <2>5, <2>6 DEF DiscoveryNext
<1>2. DiscoveryInv /\ [DiscoveryNext]_discoveryVars => [\A c \in Calls : A(c)]_discoveryVars
  BY <1>1
<1>3. QED
  BY <1>2, DiscoveryInvariance, PTL DEF DiscoverySpec, OutageForgetsNobody
==============================================================================
