----------------------------- MODULE MqttSession -----------------------------
(* The stored sessions of MQTT clients (src/transport/mqtt_session_persistence.c) *)
(* and their use by the client transport (mcp_mqtt_client_transport.c), with a *)
(* process that may be killed in the middle of a save; and the transport's     *)
(* queue of outgoing messages (mcp_mqtt_common.c), which senders and the       *)
(* handler of requests add to, the callback of a writable connection takes     *)
(* from, and no session keeps.                                                 *)
(*                                                                             *)
(* What is done with g_session_mutex held is one action; is_persistence_ready, *)
(* which is looked at before and after the lock is taken, is looked at once.    *)
(* A file is the sequence of the sections that were written to it.             *)
EXTENDS Integers, Sequences, FiniteSets, SequencesExt

CONSTANTS Threads,
          Ids,             \* client ids: sequences of characters
          Sessions,        \* what is saved: [subs, inflight, last, expires]
          NoPayload,       \* the in-flight message whose payload is empty
          MaxInflight,     \* max_inflight of the client transport
          Publishers,      \* threads that add to the queue
          MaxQueue,        \* max_queue_size
          MaxMessages      \* bound: messages that are added

VARIABLES store,           \* "up" when g_persistence_initialized, "closing" when
                           \* g_persistence_shutting_down, else "down"
          file,            \* what is under each path
          thread,          \* the call each thread is in
          client,          \* the subscriptions, in-flight messages and packet id
                           \* of the client transport
          saved,           \* history: the last save to each path, and whether it
                           \* was answered with 0
          queue,           \* message_queue_head .. message_queue_tail
          size,            \* message_queue_size
          publisher,       \* "idle", or "room" between the two critical sections
          added,           \* history: messages added so far, numbered in order
          sent, lost       \* history: messages that were published, and dropped

sessionVars == <<store, file, thread, client, saved>>
queueVars == <<queue, size, publisher, added, sent, lost>>
vars == <<sessionVars, queueVars>>

\* get_session_path leaves no room for the terminating zero, so the last
\* character of the id is cut off.
Path(id) == Front(id)

Paths == {Path(id) : id \in Ids}

NoFile == [exists |-> FALSE, text |-> <<>>, old |-> FALSE]

NotSaved == [id |-> <<>>, data |-> <<>>, acked |-> FALSE]

Idle == [op |-> "idle", id |-> <<>>, data |-> <<>>]

NewClient == [subs |-> <<>>, inflight |-> <<>>, last |-> 1]

\* is_persistence_ready.
Ready == store = "up"

\* The store, the files, the threads, the client and the queue have their types.
TypeOK ==
    /\ store \in {"down", "up", "closing"}
    /\ DOMAIN file = Paths /\ DOMAIN saved = Paths
    /\ \A p \in Paths : file[p].exists \in BOOLEAN /\ file[p].old \in BOOLEAN
    /\ \A t \in Threads :
           thread[t].op \in {"idle", "copied", "expired", "touched", "closing"}
    /\ client.last \in Nat
    /\ queue \in Seq(1 .. MaxMessages)
    /\ size \in 0 .. MaxMessages
    /\ publisher \in [Publishers -> {"idle", "room"}]
    /\ added \in 0 .. MaxMessages
    /\ sent \in Seq(1 .. MaxMessages)
    /\ lost \in SUBSET (1 .. MaxMessages)

QueueInit ==
    /\ queue = <<>> /\ size = 0
    /\ publisher = [p \in Publishers |-> "idle"]
    /\ added = 0 /\ sent = <<>> /\ lost = {}

Init ==
    /\ store = "down"
    /\ file = [p \in Paths |-> NoFile]
    /\ thread = [t \in Threads |-> Idle]
    /\ client = NewClient
    /\ saved = [p \in Paths |-> NotSaved]
    /\ QueueInit

-----------------------------------------------------------------------------
(* Writing *)

Section(kind, value) == [kind |-> kind, value |-> value]

\* The sections of a session in the order they are written: the header (magic
\* number, version, times, expiry interval), the client id, the number of
\* subscriptions, each of them, the last packet id, the number of in-flight
\* messages, each of them.
Text(id, s) ==
    <<Section("head", s.expires), Section("id", id), Section("count", Len(s.subs))>>
    \o [i \in DOMAIN s.subs |-> Section("sub", s.subs[i])]
    \o <<Section("last", s.last), Section("count", Len(s.inflight))>>
    \o [i \in DOMAIN s.inflight |-> Section("message", s.inflight[i])]

\* How much reaches the file when no write fails: safe_fwrite refuses to write
\* zero bytes, so a message without payload ends the save.
Reached(text) ==
    LET bad == SelectInSeq(text, LAMBDA x : x = Section("message", NoPayload))
    IN  IF bad = 0 THEN Len(text) ELSE bad - 1

\* Mutant: a save that ended early is answered with 0.
WriteDeaf(id, s, n) ==
    LET p == Path(id)
    IN  /\ file' = [file EXCEPT ![p] = [exists |-> TRUE, old |-> FALSE,
                                        text |-> SubSeq(Text(id, s), 1, n)]]
        /\ saved' = [saved EXCEPT ![p] = [id |-> id, data |-> s, acked |-> TRUE]]

\* mqtt_session_save with the lock: fopen empties the file, then n sections are
\* written to it; the answer is 0 when those are all.  That fclose, whose answer is
\* not looked at, may still fail to write what the stream holds is left out.
Write(id, s, n) ==
    LET p == Path(id)
        all == Len(Text(id, s))
    IN  /\ file' = [file EXCEPT ![p] = [exists |-> TRUE, old |-> FALSE,
                                        text |-> SubSeq(Text(id, s), 1, n)]]
        /\ saved' = [saved EXCEPT ![p] = [id |-> id, data |-> s,
                                          acked |-> n = all]]

Unlink(gone) ==
    /\ file' = [p \in Paths |-> IF p \in gone THEN NoFile ELSE file[p]]
    /\ saved' = [p \in Paths |-> IF p \in gone THEN NotSaved ELSE saved[p]]

-----------------------------------------------------------------------------
(* Reading *)

\* The header can be read and the session has expired (an interval of 0 is for
\* ever).
Expired(f) == Len(f.text) >= 1 /\ f.text[1].value /\ f.old

\* The sections from i on that a count announces are there.
Counted(text, i) == i <= Len(text) /\ i + text[i].value <= Len(text)

Values(text, i) == [k \in 1 .. text[i].value |-> text[i + k].value]

Nothing == [ok |-> FALSE]

\* Mutant: the id in the file is not compared with the client's.
ReadAnyId(id, f) ==
    LET text == f.text
        tail == 4 + text[3].value
    IN  IF \/ Len(text) < 2 \/ ~Counted(text, 3)
           \/ tail + 1 <= Len(text) /\ ~Counted(text, tail + 1)
        THEN Nothing
        ELSE [ok |-> TRUE, subs |-> Reverse(Values(text, 3)),
              last |-> IF tail <= Len(text) THEN text[tail].value ELSE 1,
              inflight |-> IF tail + 1 <= Len(text)
                           THEN Reverse(Values(text, tail + 1)) ELSE <<>>,
              expires |-> text[1].value]

\* mqtt_session_load after the test of the expiry.  The subscriptions must all
\* be there; without the last packet id or the number of in-flight messages the
\* file is taken to have none.  Both lists come back reversed.
Read(id, f) ==
    LET text == f.text
        tail == 4 + text[3].value
    IN  IF \/ Len(text) < 2 \/ text[2].value # id \/ ~Counted(text, 3)
           \/ tail + 1 <= Len(text) /\ ~Counted(text, tail + 1)
        THEN Nothing
        ELSE [ok |-> TRUE, subs |-> Reverse(Values(text, 3)),
              last |-> IF tail <= Len(text) THEN text[tail].value ELSE 1,
              inflight |-> IF tail + 1 <= Len(text)
                           THEN Reverse(Values(text, tail + 1)) ELSE <<>>,
              expires |-> text[1].value]

-----------------------------------------------------------------------------
(* The client transport *)

\* mqtt_client_add_subscription for the topics of a list, in its order.
AddSubs(subs, more) ==
    FoldLeft(LAMBDA acc, t : IF Contains(acc, t) THEN acc ELSE <<t>> \o acc, subs, more)

\* Mutant: the limit is not looked at.
AddInflightUnbounded(inflight, more) == Reverse(more) \o inflight

\* mqtt_client_add_inflight_message for the messages of a list, in its order:
\* it compares no packet ids, and refuses what exceeds max_inflight.
AddInflight(inflight, more) ==
    FoldLeft(LAMBDA acc, m : IF Len(acc) >= MaxInflight THEN acc ELSE <<m>> \o acc,
             inflight, more)

\* The end of mqtt_client_start_connection, after a load.
Restored(s) ==
    [subs     |-> AddSubs(client.subs, s.subs),
     inflight |-> AddInflight(client.inflight, s.inflight),
     last     |-> IF s.last > 0 THEN s.last ELSE client.last]

\* mqtt_client_save_session copies both lists from their ends.
Copied == [subs |-> Reverse(client.subs), inflight |-> Reverse(client.inflight),
           last |-> client.last, expires |-> TRUE]

-----------------------------------------------------------------------------
(* Calls *)

Return(t) == thread' = [thread EXCEPT ![t] = Idle]

\* mqtt_session_save, in which a write may fail.
Save(t, id, s) ==
    /\ Ready
    /\ \E n \in 0 .. Reached(Text(id, s)) : Write(id, s, n)
    /\ Return(t)
    /\ UNCHANGED <<store, client>>

SaveAny(t) == thread[t] = Idle /\ \E id \in Ids, s \in Sessions : Save(t, id, s)

\* mqtt_client_stop_connection and mcp_mqtt_client_save_session: the copy is made
\* before the store is locked.
CopySession(t) ==
    /\ thread[t] = Idle /\ Ready
    /\ \E id \in Ids :
        thread' = [thread EXCEPT ![t] = [op |-> "copied", id |-> id, data |-> Copied]]
    /\ UNCHANGED <<store, file, client, saved>>

\* The save of a copy, and the second half of mqtt_session_update_access_time.
SaveCopy(t) ==
    /\ thread[t].op \in {"copied", "touched"}
    /\ Save(t, thread[t].id, thread[t].data)

\* mqtt_session_load by mqtt_client_start_connection ("start") or by
\* mqtt_session_update_access_time ("touch").
Load(t, id, op) ==
    /\ thread[t] = Idle /\ Ready
    /\ LET f == file[Path(id)]
           s == Read(id, f)
       IN  \/ /\ Expired(f)
              /\ thread' = [thread EXCEPT ![t] = [Idle EXCEPT !.op = "expired", !.id = id]]
              /\ UNCHANGED client
           \/ /\ ~Expired(f) /\ s.ok
              /\ client' = IF op = "start" THEN Restored(s) ELSE client
              /\ thread' = [thread EXCEPT ![t] =
                     IF op = "start" THEN Idle
                     ELSE [op |-> "touched", id |-> id,
                           data |-> [subs |-> s.subs, inflight |-> s.inflight,
                                     last |-> s.last, expires |-> s.expires]]]
    /\ UNCHANGED <<store, file, saved>>

\* mqtt_session_delete.
Delete(t) ==
    /\ thread[t] = Idle /\ Ready
    /\ \E id \in Ids : Unlink({Path(id)})
    /\ UNCHANGED <<store, thread, client>>

\* mqtt_session_load deletes what it found expired, after it gave up the lock.
DeleteExpired(t) ==
    /\ thread[t].op = "expired" /\ Ready
    /\ Unlink({Path(thread[t].id)})
    /\ Return(t)
    /\ UNCHANGED <<store, client>>

\* The store was closed in the meantime: -1.
NotReady(t) ==
    /\ thread[t].op \in {"copied", "touched", "expired"} /\ ~Ready
    /\ Return(t)
    /\ UNCHANGED <<store, file, client, saved>>

-----------------------------------------------------------------------------
\* mqtt_session_is_expired_internal also says so of what it cannot read.
Removable(p) == file[p].exists /\ (Len(file[p].text) = 0 \/ Expired(file[p]))

\* mqtt_session_cleanup_expired takes the name of a file for an id, and so looks
\* at the file whose name is one character shorter.
CleanupExpired ==
    /\ Ready
    /\ Unlink({q \in Paths : Removable(q) /\ \E p \in Paths : /\ file[p].exists
                                                            /\ p # <<>>
                                                            /\ Front(p) = q})
    /\ UNCHANGED <<store, thread, client>>

\* session_expiry_interval passes for a file.
Age(p) ==
    /\ file[p].exists /\ ~file[p].old
    /\ file' = [file EXCEPT ![p].old = TRUE]
    /\ UNCHANGED <<store, thread, client, saved>>

\* mqtt_session_persistence_init.
InitStore ==
    /\ store = "down"
    /\ store' = "up"
    /\ UNCHANGED <<file, thread, client, saved>>

\* mqtt_session_persistence_cleanup, up to the section with the lock, and after
\* 10 ms the end of the mutex.
BeginClose(t) ==
    /\ thread[t] = Idle /\ store = "up"
    /\ store' = "closing"
    /\ thread' = [thread EXCEPT ![t].op = "closing"]
    /\ UNCHANGED <<file, client, saved>>

EndClose(t) ==
    /\ thread[t].op = "closing"
    /\ store' = "down"
    /\ Return(t)
    /\ UNCHANGED <<file, client, saved>>

-----------------------------------------------------------------------------
(* The queue *)

\* Mutant: the comparison lets one more in.
FindRoomOneMore(p) ==
    /\ publisher[p] = "idle"
    /\ size <= MaxQueue
    /\ publisher' = [publisher EXCEPT ![p] = "room"]
    /\ UNCHANGED <<queue, size, added, sent, lost>>

\* mqtt_enqueue_message, first section: the limit.  A full queue changes nothing.
\* The callers are mqtt_client_transport_send, mcp_mqtt_transport_publish and,
\* for the response to a request, mqtt_handle_incoming_message.
FindRoom(p) ==
    /\ publisher[p] = "idle"
    /\ size < MaxQueue
    /\ publisher' = [publisher EXCEPT ![p] = "room"]
    /\ UNCHANGED <<queue, size, added, sent, lost>>

\* The second section: the message becomes the tail.
Enqueue(p) ==
    /\ publisher[p] = "room"
    /\ added < MaxMessages
    /\ added' = added + 1
    /\ queue' = Append(queue, added')
    /\ size' = size + 1
    /\ publisher' = [publisher EXCEPT ![p] = "idle"]
    /\ UNCHANGED <<sent, lost>>

\* mqtt_process_message_queue: the head leaves the queue; without a connection,
\* and when libwebsockets refuses it, it is dropped.
Process ==
    /\ queue # <<>>
    /\ queue' = Tail(queue)
    /\ size' = size - 1
    /\ \/ sent' = Append(sent, Head(queue)) /\ UNCHANGED lost
       \/ lost' = lost \cup {Head(queue)} /\ UNCHANGED sent
    /\ UNCHANGED <<publisher, added>>

-----------------------------------------------------------------------------
\* The process is killed and a new one begins.  In a save it leaves what a save
\* leaves whose next write fails; the queue is lost.
Crash ==
    /\ store' = "down"
    /\ thread' = [t \in Threads |-> Idle]
    /\ client' = NewClient
    /\ queue' = <<>> /\ size' = 0
    /\ publisher' = [p \in Publishers |-> "idle"]
    /\ lost' = lost \cup ToSet(queue)
    /\ UNCHANGED <<file, saved, added, sent>>

Thread(t) ==
    \/ SaveAny(t) \/ CopySession(t) \/ SaveCopy(t)
    \/ \E id \in Ids, op \in {"start", "touch"} : Load(t, id, op)
    \/ Delete(t) \/ DeleteExpired(t) \/ NotReady(t)
    \/ BeginClose(t) \/ EndClose(t)

SessionStep ==
    \/ \E t \in Threads : Thread(t)
    \/ CleanupExpired
    \/ \E p \in Paths : Age(p)
    \/ InitStore

QueueStep == Process \/ \E p \in Publishers : FindRoom(p) \/ Enqueue(p)

Next ==
    \/ SessionStep /\ UNCHANGED queueVars
    \/ QueueStep /\ UNCHANGED sessionVars
    \/ Crash

Spec == Init /\ [][Next]_vars

-----------------------------------------------------------------------------
\* A save that was answered with 0 can be loaded again, in full, after any
\* number of crashes, until somebody writes to or deletes its file or it
\* expires (mqtt_session_save, mqtt_session_load).
AckedSaveLoads ==
    \A p \in Paths :
        LET a == saved[p]
            s == Read(a.id, file[p])
        IN  a.acked /\ ~Expired(file[p]) =>
                /\ s.ok
                /\ s.subs = Reverse(a.data.subs)
                /\ s.inflight = Reverse(a.data.inflight)
                /\ s.last = a.data.last

\* What a load returns was saved for the same client by one save, whatever a crash
\* or a failed write left of the file: all of its subscriptions, and all of its
\* in-flight messages with its packet id.  Only of a save that was not acknowledged
\* may it be less, and then no part of the messages: a file cut after the
\* subscriptions is loaded without any, and with packet id 1 if that is missing
\* too (mqtt_session_load, 498-507).
LoadedFromOneSave ==
    \A id \in Ids :
        LET s == Read(id, file[Path(id)])
            a == saved[Path(id)]
        IN  s.ok =>
                /\ a.id = id
                /\ s.subs = Reverse(a.data.subs)
                /\ \/ s.inflight = Reverse(a.data.inflight) /\ s.last = a.data.last
                   \/ ~a.acked /\ s.inflight = <<>> /\ s.last \in {1, a.data.last}

\* Not so: a file that a save was cut short of is not taken for a session
\* (mqtt_session_persistence.c:502).
CutFileRefused ==
    \A p \in Paths : file[p].exists /\ ~saved[p].acked => ~Read(saved[p].id, file[p]).ok

\* The in-flight messages of the client never exceed max_inflight, however often
\* it starts and restores them (mqtt_client_add_inflight_message).
InflightBounded == Len(client.inflight) <= MaxInflight

\* The limit and the addition are two critical sections, so the queue may exceed
\* max_queue_size, but only by the publishers that are between the two at once;
\* the counter is exact, and messages leave once and in the order they came.
QueueBounded ==
    /\ size = Len(queue)
    /\ size + Cardinality({p \in Publishers : publisher[p] = "room"})
           <= MaxQueue + Cardinality(Publishers) - 1
    /\ \A i, j \in DOMAIN sent : i < j => sent[i] < sent[j]
    /\ ToSet(sent) \cup lost \cup ToSet(queue) = 1 .. added

\* Not so: a session that is saved while an older load is on its way to delete
\* an expired one is deleted as well (mqtt_session_persistence.c:402).
FreshSaveKept ==
    [][\A t \in Threads :
           thread[t].op = "expired" /\ thread'[t] = Idle /\ Ready =>
               ~saved[Path(thread[t].id)].acked \/ file[Path(thread[t].id)].old]_vars
=============================================================================
