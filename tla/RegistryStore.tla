----------------------------- MODULE RegistryStore -----------------------------
(***************************************************************************)
(* The registry's record of one agent: CloudSQLAgentStore behind Registry. *)
(* A registration and an update are a read of the row, an embedding and an *)
(* upsert, with awaits between them; a delete is one statement.  Any       *)
(* number of requests run at once.                                         *)
(*                                                                         *)
(* Of a record are kept the url a registration brings, the note (any field *)
(* an update may change), when it was registered, and whether it has an    *)
(* embedding, without which semantic search passes it over.                *)
(*                                                                         *)
(* An operator whose name ends in _Wrong is a faulty variant of the one    *)
(* after it; no specification uses it.                                     *)
(***************************************************************************)
EXTENDS Naturals

CONSTANTS
  Writers,   \* requests in flight
  Urls,      \* what registrations bring
  Notes,     \* what updates set
  NoRow,
  MaxWrites  \* bound: upserts and deletes

ASSUME NotesHaveNone == "none" \notin Notes
ASSUME MaxWritesIsNat == MaxWrites \in Nat

Records == [url : Urls, note : Notes \cup {"none"}, reg : Nat, emb : BOOLEAN]

ASSUME NoRowIsNoRecord == NoRow \notin Records

VARIABLES
  row,     \* the row of the agent in the table agents
  writer,
  writes,  \* number of upserts and deletes; also the time
  serial,  \* history: the row, had every request run at once at its write
  raced    \* history: an update wrote over, or a save revived, what it had not read

storeVars == <<row, writer, writes, serial, raced>>

Record(url, note, reg, emb) == [url |-> url, note |-> note, reg |-> reg, emb |-> emb]

Free == [at |-> "free"]

StoreInit ==
  /\ row = NoRow
  /\ writer = [w \in Writers |-> Free]
  /\ writes = 0
  /\ serial = NoRow
  /\ raced = FALSE

Saving(op, saved, existing) == [at |-> "saving", op |-> op, saved |-> saved, read |-> existing]

\* register: the payload, with the registered_at of the row that get() finds.
Register(w, url) ==
  /\ writer[w] = Free
  /\ writer' = [writer EXCEPT ![w] =
       Saving("register",
              Record(url, "none", IF row = NoRow THEN writes ELSE row.reg, FALSE), row)]
  /\ UNCHANGED <<row, writes, serial, raced>>

\* update: the row that is read with one field changed; no row, no update.  (The
\* second get(), in save(), may only find another registered_at or none.)
Update(w, note) ==
  /\ writer[w] = Free
  /\ row # NoRow
  /\ writer' = [writer EXCEPT ![w] = Saving("update", [row EXCEPT !.note = note], row)]
  /\ UNCHANGED <<row, writes, serial, raced>>

Upserted_Wrong(saved) == saved     \* ON CONFLICT sets registered_at as well

\* INSERT ... ON CONFLICT DO UPDATE: every column but registered_at.
Upserted(saved) == IF row = NoRow THEN saved ELSE [saved EXCEPT !.reg = row.reg]

\* The request had it run without a break at this moment.
Serially(op, saved) ==
  IF op = "update"
    THEN IF serial = NoRow THEN NoRow
         ELSE Record(serial.url, saved.note, serial.reg, saved.emb)
    ELSE IF serial = NoRow THEN saved ELSE [saved EXCEPT !.reg = serial.reg]

\* The writes that awaits in between can spoil: an update whose record is no
\* longer the row, and an insert of what was read as a row.
Spoilt(w) ==
  IF writer[w].op = "update" THEN writer[w].read # row
  ELSE row = NoRow /\ writer[w].read # NoRow

\* The embedding is computed, or fails and is left empty; then the upsert.
Upsert(w, embedded) ==
  LET saved == [writer[w].saved EXCEPT !.emb = embedded] IN
  /\ writer[w].at = "saving"
  /\ writes < MaxWrites
  /\ row' = Upserted(saved)
  /\ serial' = Serially(writer[w].op, saved)
  /\ raced' = (raced \/ Spoilt(w))
  /\ writer' = [writer EXCEPT ![w] = Free]
  /\ writes' = writes + 1

\* The database raises, or the caller is gone.
SaveFails(w) ==
  /\ writer[w].at = "saving"
  /\ writer' = [writer EXCEPT ![w] = Free]
  /\ UNCHANGED <<row, writes, serial, raced>>

Delete ==
  /\ row # NoRow
  /\ writes < MaxWrites
  /\ row' = NoRow
  /\ serial' = NoRow
  /\ writes' = writes + 1
  /\ UNCHANGED <<writer, raced>>

StoreNext ==
  \/ \E w \in Writers :
       \/ \E url \in Urls : Register(w, url)
       \/ \E note \in Notes : Update(w, note)
       \/ \E embedded \in BOOLEAN : Upsert(w, embedded)
       \/ SaveFails(w)
  \/ Delete

StoreSpec == StoreInit /\ [][StoreNext]_storeVars

------------------------------------------------------------------------------
StoreTypeOK ==
  /\ row \in Records \cup {NoRow} /\ serial \in Records \cup {NoRow}
  /\ writer \in [Writers -> {Free} \cup [at : {"saving"}, op : {"register", "update"},
                                         saved : Records, read : Records \cup {NoRow}]]
  /\ writes \in Nat
  /\ raced \in BOOLEAN

\* Requests that overlap leave the row that some order of them would have left,
\* registered_at of the first registration included, unless an update lost a
\* change made since it read or a save brought a deleted row back.
SavesAreSerial == raced \/ row = serial
==============================================================================
