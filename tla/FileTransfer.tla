---------------------------- MODULE FileTransfer ----------------------------
(* How an administrator gets a screenshot or the settings of a suspect: the *)
(* server asks the suspect, receives the file into the memory file of a     *)
(* proxy (screenshot_server.cpp) and, while it is still receiving, relays   *)
(* it to the administrator; server_site and client_site (file_transfer.cpp) *)
(* are the two ends of each transfer.                                       *)
(* Kept: the sessions, their keys and sizes, the memory files, every test   *)
(* and packet of both ends, the clients that leave.  Left out: the clock    *)
(* (a timeout may fire whenever its session is open), the pace of the       *)
(* chunks, the notices an administrator only prints, the files the server   *)
(* itself keeps, the shutdown, the transfer of the server's logo.           *)
(* A packet of a client concerns one session, so each session has channels  *)
(* of its own, each in order.                                               *)
EXTENDS Integers, Sequences, FiniteSets

CONSTANTS
    Admins,
    Suspects,
    Proxies,    \* the number of m_screenshot_proxies
    Binders,    \* the number of m_client_receiver_cbs
    FileSize,   \* FileSize[n]: the units of the n-th file that is collected;
                \* bound: there are as many requests as files
    MaxChunk,   \* the units of a packet at most
    MaxPackets, \* bound: no update and no refusal of a chunk appends to a
                \* channel of so many packets
    AnySize,    \* the values of a size that nobody wrote
    None,       \* no client, no session, no header
    Torn        \* bytes that are no unit of a file

ASSUME ConstantsAssumption ==
    /\ Proxies \in Nat /\ Binders \in Nat /\ MaxPackets \in Nat
    /\ MaxChunk \in Nat \ {0}
    /\ FileSize \in Seq(Nat \ {0})
    /\ AnySize \subseteq Nat /\ AnySize # {}

VARIABLES
    proxy,      \* clientdata_proxy: m_admin_id, m_chearer_id, m_first_receive,
                \* my_proxy_mem_file
    receivers,  \* server_site::m_receivers
    transfers,  \* server_site::m_transfers
    collecting, \* the collections a suspect is running
    buffer,     \* the file in a suspect's upload_memory_writer
    upload,     \* client_site::m_transfering of a suspect
    session,    \* client_site::m_receivers of an administrator, with the
                \* writer of their fr_callback_binder
    saved,      \* the files the administrators have saved
    ask,        \* packets from the server to a suspect
    up,         \* packets from a suspect to the server
    down,       \* packets from the server to an administrator
    back,       \* packets from an administrator to the server
    online,     \* the clients of the server
    requests,   \* bound: the requests so far
    files,      \* the files collected so far
    late        \* history: the suspects of which a session has timed out,
                \* who had nothing to send or who have left

server   == <<proxy, receivers, transfers>>
suspects == <<collecting, buffer, upload, files>>
admins   == <<session, saved>>
channels == <<ask, up, down, back>>
vars     == <<server, suspects, admins, channels, online, requests, late>>

ProxyIds == 1..Proxies
Pairs    == Admins \X Suspects          \* dst_src_pair_t
Kinds    == {"screenshot", "configs"}
Units    == [from : Suspects, file : 1..Len(FileSize), pos : Nat] \cup {Torn}
Contents == Seq(Units)

Chunk(size, units) == [cmd |-> "receive_data", size |-> size, units |-> units]
Chunks   == [cmd : {"receive_data"}, size : Nat \cup {None}, units : Contents]
Abort    == [cmd |-> "abort_receive"]
Reject   == [cmd |-> "receive_rejected"]
Response == [cmd |-> "response"]
Asked(k) == [cmd |-> "request", kind |-> k]

TypeOK ==
    /\ proxy \in [ProxyIds -> [admin : Admins \cup {None},
                               suspect : Suspects \cup {None},
                               first : BOOLEAN, mem : Contents]]
    /\ receivers \in [Suspects -> [proxy : ProxyIds, total : Nat] \cup {None}]
    /\ transfers \in
         [Pairs -> [proxy : ProxyIds, sent : Nat, max : Nat] \cup {None}]
    /\ collecting \in [Suspects -> SUBSET Kinds]
    /\ buffer \in [Suspects -> 0..Len(FileSize)]
    /\ upload \in
         [Suspects -> [file : 1..Len(FileSize), sent : Nat] \cup {None}]
    /\ \A s \in Suspects :
         upload[s] # None => upload[s].sent < FileSize[upload[s].file]
    /\ session \in [Pairs -> [mem : Contents, total : Nat] \cup {None}]
    /\ saved \subseteq [to : Admins, from : Suspects, mem : Contents]
    /\ ask \in [Suspects -> Seq({Asked(k) : k \in Kinds} \cup {Reject})]
    /\ up \in [Suspects -> Seq(Chunks \cup {Abort})]
    /\ down \in [Pairs -> Seq(Chunks \cup {Abort, Response})]
    /\ back \in [Pairs -> Seq({Reject})]
    /\ online \subseteq Admins \cup Suspects
    /\ requests \in 0..Len(FileSize) /\ files \in 0..requests
    /\ late \subseteq Suspects

-----------------------------------------------------------------------------
\* filereceiver_node and filetransfer_node.

IsNext(channel, packet) == channel # <<>> /\ Head(channel) = packet
SmallerOf(m, n) == IF m <= n THEN m ELSE n

\* SendTo: nothing is sent to a client that has left.
Sent(channel, client, packet) ==
    IF client \in online THEN Append(channel, packet) ELSE channel

Written(mem, total, units) ==
    [mem |-> mem \o units, total |-> total,
     done |-> Len(mem \o units) = total]

\* What receive_packet may make of a chunk.  The first one has a header; when
\* it is missing, a packet too short for one sets the size to 0 and any other
\* loses its first bytes to it.  Later on a header is taken for content.
Receive(mem, total, chunk) ==
    IF mem # <<>>
    THEN {Written(mem, total,
            (IF chunk.size = None THEN <<>> ELSE <<Torn>>) \o chunk.units)}
    ELSE IF chunk.size # None
    THEN {Written(<<>>, chunk.size, chunk.units)}
    ELSE {r \in {[mem |-> <<>>, total |-> 0, done |-> FALSE]} :
             Len(chunk.units) <= 1}
         \cup {Written(<<>>, n, <<Torn>> \o Tail(chunk.units)) :
                 n \in {n \in AnySize : chunk.units # <<>>}}

\* is_complete, and what that decides when a session is stopped.
IsComplete(mem, total) == Len(mem) = total

-----------------------------------------------------------------------------
\* The server: xrServer::MakeScreenshot and MakeConfigDump.

\* Mutant of Active: a proxy that has received all of its file is free.
ActiveWhileReceiving(i) == \E s \in Suspects :
    proxy[i].suspect = s /\ receivers[s] # None

\* Mutant of Active: a proxy is taken before it has begun to relay.
ActiveWhileRelaying(i) == \E s \in Suspects : \E a \in Admins :
    proxy[i].suspect = s /\ proxy[i].admin = a /\ transfers[<<a, s>>] # None

\* is_active
Active(i) == \E s \in Suspects :
    /\ proxy[i].suspect = s
    /\ \/ receivers[s] # None
       \/ \E a \in Admins : proxy[i].admin = a /\ transfers[<<a, s>>] # None

\* The first proxy that is not active.
Free(i) == ~Active(i) /\ \A j \in 1..(i - 1) : Active(j)

\* The proxy turns to another suspect before it knows whether it may.
Turned(i, a, s) ==
    proxy' = [proxy EXCEPT ![i].admin = a, ![i].suspect = s]

\* Mutant of Emptied: the old content of the memory file stays.
NotEmptied(i, a, s) ==
    proxy' = [proxy EXCEPT ![i].admin = a, ![i].suspect = s, ![i].first = TRUE]

Emptied(i, a, s) ==
    proxy' = [proxy EXCEPT
        ![i] = [admin |-> a, suspect |-> s, first |-> TRUE, mem |-> <<>>]]

MakeData(a, s, k) ==
    /\ requests < Len(FileSize) /\ requests' = requests + 1
    /\ a \in online
    /\ \E i \in ProxyIds :
         /\ Free(i)
         /\ IF s \notin online \/ receivers[s] # None
            THEN Turned(i, a, s) /\ UNCHANGED <<receivers, ask>>
            ELSE /\ Emptied(i, a, s)
                 /\ \E n \in AnySize :
                      receivers' = [receivers EXCEPT
                          ![s] = [proxy |-> i, total |-> n]]
                 /\ ask' = [ask EXCEPT ![s] = Append(@, Asked(k))]
    /\ UNCHANGED <<transfers, suspects, admins, up, down, back, online, late>>

-----------------------------------------------------------------------------
\* The server: what a suspect sends.

\* Mutant of Relayed: the relay takes what has arrived for the whole file.
RelayedSoFar(i, r) ==
    LET t == <<proxy[i].admin, proxy[i].suspect>>
    IN  /\ down' = [down EXCEPT ![t] = Sent(@, t[1], Response)]
        /\ transfers' = [transfers EXCEPT
             ![t] = IF @ # None THEN @
                    ELSE [proxy |-> i, sent |-> 0, max |-> Len(r.mem)]]

\* The first call of download_*_callback: the administrator is told, the relay
\* starts unless one for the same pair is running.
Relayed(i, r) ==
    LET t == <<proxy[i].admin, proxy[i].suspect>>
    IN  /\ down' = [down EXCEPT ![t] = Sent(@, t[1], Response)]
        /\ transfers' = [transfers EXCEPT
             ![t] = IF @ # None THEN @
                    ELSE [proxy |-> i, sent |-> 0, max |-> r.total]]

ServerReceives(s) ==
    LET i == receivers[s].proxy
    IN  \E r \in Receive(proxy[i].mem, receivers[s].total, Head(up[s])) :
          /\ receivers' = [receivers EXCEPT
               ![s] = IF r.done THEN None ELSE [@ EXCEPT !.total = r.total]]
          /\ proxy' = [proxy EXCEPT ![i].mem = r.mem, ![i].first = FALSE]
          /\ IF proxy[i].first THEN Relayed(i, r)
             ELSE UNCHANGED <<down, transfers>>

\* server_site::on_message, receive_data
ServerOnData(s) ==
    /\ up[s] # <<>> /\ Head(up[s]) # Abort
    /\ up' = [up EXCEPT ![s] = Tail(@)]
    /\ IF receivers[s] = None
       THEN /\ ask' = [ask EXCEPT ![s] = Sent(@, s, Reject)]
            /\ UNCHANGED <<server, down>>
       ELSE ServerReceives(s) /\ UNCHANGED ask
    /\ UNCHANGED <<suspects, admins, back, online, requests, late>>

\* stop_receive_file of the suspects S.
StopReceive(S) ==
    /\ receivers' = [s \in Suspects |-> IF s \in S THEN None ELSE receivers[s]]
    /\ ask' = [s \in Suspects |->
         IF s \in S /\ ~IsComplete(proxy[receivers[s].proxy].mem,
                                   receivers[s].total)
         THEN Sent(ask[s], s, Reject) ELSE ask[s]]

\* server_site::on_message, abort_receive
ServerOnAbort(s) ==
    /\ IsNext(up[s], Abort)
    /\ up' = [up EXCEPT ![s] = Tail(@)]
    /\ IF receivers[s] # None THEN StopReceive({s})
       ELSE UNCHANGED <<receivers, ask>>
    /\ UNCHANGED <<proxy, transfers, suspects, admins, down, back, online,
                   requests, late>>

\* server_site::stop_obsolete_receivers
ServerTimesOut ==
    \E S \in SUBSET {s \in Suspects : receivers[s] # None} \ {{}} :
        /\ StopReceive(S)
        /\ late' = late \cup S
        /\ UNCHANGED <<proxy, transfers, suspects, admins, up, down, back,
                       online, requests>>

-----------------------------------------------------------------------------
\* The server: the relay.

Source(t) == proxy[transfers[t].proxy].mem

\* server_site::on_message, receive_rejected: stop_transfer_file.
ServerOnReject(t) ==
    /\ back[t] # <<>>
    /\ back' = [back EXCEPT ![t] = Tail(@)]
    /\ transfers' = [transfers EXCEPT ![t] = None]
    /\ down' = IF transfers[t] # None /\ transfers[t].sent # transfers[t].max
               THEN [down EXCEPT ![t] = Sent(@, t[1], Abort)] ELSE down
    /\ UNCHANGED <<proxy, receivers, suspects, admins, ask, up, online,
                   requests, late>>

\* Is t served by this turn of the loop?  (is_ready_to_send)
Served(t) ==
    /\ transfers[t] # None /\ t[1] \in online
    /\ transfers[t].sent # transfers[t].max
    /\ Len(down[t]) < MaxPackets

\* memory_writer_reader: the next units, at most n of them, or none at all
\* when all that the memory file has by now is sent.
Ready(t, n) == SmallerOf(n, Len(Source(t)) - transfers[t].sent)

RelayChunk(t, n) ==
    Chunk(IF transfers[t].sent = 0 THEN transfers[t].max ELSE None,
          SubSeq(Source(t), transfers[t].sent + 1,
                 transfers[t].sent + Ready(t, n)))

AfterTurn(t, n) ==
    IF transfers[t] = None \/ t[1] \notin online THEN None
    ELSE IF ~Served(t) THEN transfers[t]
    ELSE IF transfers[t].sent + Ready(t, n) = transfers[t].max THEN None
    ELSE [transfers[t] EXCEPT !.sent = @ + Ready(t, n)]

\* server_site::update_transfer; size[t] is the m_chunk_size of t.
UpdateTransfer == \E size \in [Pairs -> 1..MaxChunk] :
    /\ transfers' = [t \in Pairs |-> AfterTurn(t, size[t])]
    /\ down' = [t \in Pairs |->
         IF Served(t) THEN Append(down[t], RelayChunk(t, size[t]))
         ELSE down[t]]
    /\ UNCHANGED <<proxy, receivers, suspects, admins, ask, up, back, online,
                   requests, late>>

-----------------------------------------------------------------------------
\* A suspect.

\* game_cl_mp::OnGameMessage; a collection that runs already is not repeated.
SuspectOnRequest(s) == \E k \in Kinds :
    /\ IsNext(ask[s], Asked(k))
    /\ ask' = [ask EXCEPT ![s] = Tail(@)]
    /\ collecting' = [collecting EXCEPT ![s] = @ \cup {k}]
    /\ UNCHANGED <<server, buffer, upload, files, admins, up, down, back,
                   online, requests, late>>

\* client_site::on_message, receive_rejected: stop_transfer_file.
SuspectOnReject(s) ==
    /\ IsNext(ask[s], Reject)
    /\ ask' = [ask EXCEPT ![s] = Tail(@)]
    /\ upload' = [upload EXCEPT ![s] = None]
    /\ up' = IF upload[s] = None THEN up
             ELSE [up EXCEPT ![s] = Append(@, Abort)]
    /\ UNCHANGED <<server, collecting, buffer, files, admins, down, back,
                   online, requests, late>>

\* client_site::start_transfer_file: refused while an upload is running.
StartUpload(s, n) == upload' = [upload EXCEPT
    ![s] = IF @ # None THEN @ ELSE [file |-> n, sent |-> 0]]

\* game_cl_mp::SendCollectedData: the buffer gets the file whether an upload
\* that reads it is running or not.
Collected(s, k) ==
    /\ k \in collecting[s] /\ files < requests
    /\ collecting' = [collecting EXCEPT ![s] = @ \ {k}]
    /\ files' = files + 1
    /\ buffer' = [buffer EXCEPT ![s] = files + 1]
    /\ StartUpload(s, files + 1)
    /\ UNCHANGED <<server, admins, channels, online, requests, late>>

\* The same, when there is nothing to send.
NothingCollected(s, k) ==
    /\ k \in collecting[s]
    /\ collecting' = [collecting EXCEPT ![s] = @ \ {k}]
    /\ late' = late \cup {s}
    /\ UNCHANGED <<server, buffer, upload, files, admins, channels, online,
                   requests>>

\* memory_reader: the unit at a position of the file that is uploaded, as long
\* as the buffer still holds it.
UploadUnit(s, pos) ==
    IF buffer[s] = upload[s].file
    THEN [from |-> s, file |-> upload[s].file, pos |-> pos] ELSE Torn

UploadChunk(s, n) ==
    Chunk(IF upload[s].sent = 0 THEN FileSize[upload[s].file] ELSE None,
          [i \in 1..n |-> UploadUnit(s, upload[s].sent + i)])

\* client_site::update_transfer
SuspectSends(s) == \E size \in 1..MaxChunk :
    /\ upload[s] # None
    /\ Len(up[s]) < MaxPackets
    /\ LET rest == FileSize[upload[s].file] - upload[s].sent
           n    == SmallerOf(size, rest)
       IN  /\ up' = [up EXCEPT ![s] = Append(@, UploadChunk(s, n))]
           /\ upload' = [upload EXCEPT
                ![s] = IF n = rest THEN None
                       ELSE [upload[s] EXCEPT !.sent = @ + n]]
    /\ UNCHANGED <<server, collecting, buffer, files, admins, ask, down, back,
                   online, requests, late>>

-----------------------------------------------------------------------------
\* An administrator.

Sessions(a) == {s \in Suspects : session[<<a, s>>] # None}

\* PrepareToReceiveFile: refused when the file of s is being received already
\* or no binder is free.
AdminOnResponse(t) ==
    /\ IsNext(down[t], Response)
    /\ down' = [down EXCEPT ![t] = Tail(@)]
    /\ IF session[t] # None \/ Cardinality(Sessions(t[1])) >= Binders
       THEN UNCHANGED session
       ELSE \E n \in AnySize :
              session' = [session EXCEPT ![t] = [mem |-> <<>>, total |-> n]]
    /\ UNCHANGED <<server, suspects, saved, ask, up, back, online, requests,
                   late>>

\* client_site::on_message, receive_data
AdminOnData(t) ==
    /\ down[t] # <<>> /\ Head(down[t]) \notin {Abort, Response}
    /\ down' = [down EXCEPT ![t] = Tail(@)]
    /\ IF session[t] = None
       THEN /\ Len(back[t]) < MaxPackets
            /\ back' = [back EXCEPT ![t] = Append(@, Reject)]
            /\ UNCHANGED admins
       ELSE /\ \E r \in Receive(session[t].mem, session[t].total,
                                Head(down[t])) :
                 /\ session' = [session EXCEPT
                      ![t] = IF r.done THEN None
                             ELSE [mem |-> r.mem, total |-> r.total]]
                 /\ saved' = IF r.done
                             THEN saved \cup {[to |-> t[1], from |-> t[2],
                                               mem |-> r.mem]}
                             ELSE saved
            /\ UNCHANGED back
    /\ UNCHANGED <<server, suspects, ask, up, online, requests, late>>

\* client_site::stop_receive_file of the sessions T.
StopSessions(T) ==
    /\ session' = [t \in Pairs |-> IF t \in T THEN None ELSE session[t]]
    /\ back' = [t \in Pairs |->
         IF t \in T /\ ~IsComplete(session[t].mem, session[t].total)
         THEN Append(back[t], Reject) ELSE back[t]]

\* client_site::on_message, abort_receive
AdminOnAbort(t) ==
    /\ IsNext(down[t], Abort)
    /\ down' = [down EXCEPT ![t] = Tail(@)]
    /\ IF session[t] # None THEN StopSessions({t})
       ELSE UNCHANGED <<session, back>>
    /\ UNCHANGED <<server, suspects, saved, ask, up, online, requests, late>>

\* client_site::stop_obsolete_receivers
AdminTimesOut(a) ==
    \E S \in SUBSET Sessions(a) \ {{}} :
        /\ StopSessions({a} \X S)
        /\ late' = late \cup S
        /\ UNCHANGED <<server, suspects, saved, ask, up, down, online,
                       requests>>

-----------------------------------------------------------------------------
\* A client leaves.  ~client_site stops its upload; of what it has sent the
\* server gets the first packets only.  (The rejects of an administrator who
\* has left end relays that UpdateTransfer ends anyway.)

Farewell(s) == up[s] \o (IF upload[s] = None THEN <<>> ELSE <<Abort>>)

Leave(c) ==
    /\ c \in online /\ online' = online \ {c}
    /\ IF c \in Suspects
       THEN /\ \E n \in 0..Len(Farewell(c)) :
                 up' = [up EXCEPT ![c] = SubSeq(Farewell(c), 1, n)]
            /\ ask' = [ask EXCEPT ![c] = <<>>]
            /\ collecting' = [collecting EXCEPT ![c] = {}]
            /\ upload' = [upload EXCEPT ![c] = None]
            /\ late' = late \cup {c}
       ELSE UNCHANGED <<up, ask, collecting, upload, late>>
    /\ session' = [t \in Pairs |-> IF t[1] = c THEN None ELSE session[t]]
    /\ down' = [t \in Pairs |-> IF t[1] = c THEN <<>> ELSE down[t]]
    /\ back' = [t \in Pairs |-> IF t[1] = c THEN <<>> ELSE back[t]]
    /\ UNCHANGED <<server, buffer, files, saved, requests>>

-----------------------------------------------------------------------------
Init ==
    /\ proxy = [i \in ProxyIds |-> [admin |-> None, suspect |-> None,
                                    first |-> FALSE, mem |-> <<>>]]
    /\ receivers = [s \in Suspects |-> None]
    /\ transfers = [t \in Pairs |-> None]
    /\ collecting = [s \in Suspects |-> {}]
    /\ buffer = [s \in Suspects |-> 0]
    /\ upload = [s \in Suspects |-> None]
    /\ session = [t \in Pairs |-> None] /\ saved = {}
    /\ ask = [s \in Suspects |-> <<>>] /\ up = [s \in Suspects |-> <<>>]
    /\ down = [t \in Pairs |-> <<>>] /\ back = [t \in Pairs |-> <<>>]
    /\ online = Admins \cup Suspects
    /\ requests = 0 /\ files = 0 /\ late = {}

SuspectStep(s) ==
    \/ SuspectOnRequest(s) \/ SuspectOnReject(s) \/ SuspectSends(s)
    \/ \E k \in Kinds : Collected(s, k) \/ NothingCollected(s, k)
AdminStep(t) == AdminOnResponse(t) \/ AdminOnData(t) \/ AdminOnAbort(t)
ServerReads ==
    \/ \E s \in Suspects : ServerOnData(s) \/ ServerOnAbort(s)
    \/ \E t \in Pairs : ServerOnReject(t)

Next ==
    \/ \E a \in Admins, s \in Suspects, k \in Kinds : MakeData(a, s, k)
    \/ ServerReads \/ UpdateTransfer \/ ServerTimesOut
    \/ \E s \in Suspects : SuspectStep(s)
    \/ \E t \in Pairs : AdminStep(t)
    \/ \E a \in Admins : AdminTimesOut(a)
    \/ \E c \in Admins \cup Suspects : Leave(c)

Spec == Init /\ [][Next]_vars

\* The frames of every process go on: as long as there is a packet to read, a
\* session to update or a collection to end, some of that is done.  No request,
\* timeout or leave is certain.
FairSpec ==
    /\ Spec
    /\ WF_vars(UpdateTransfer)
    /\ WF_vars(ServerReads)
    /\ WF_vars(\E s \in Suspects : SuspectStep(s))
    /\ \A t \in Pairs : WF_vars(AdminStep(t))

-----------------------------------------------------------------------------
(* Properties.                                                              *)

\* The memory file of a proxy has one user: a session that receives into it is
\* with the suspect of that proxy, and a relay that reads it runs between the
\* administrator and the suspect of that proxy (is_active keeps it so, though
\* the sessions are kept under the clients' ids and not under the proxies).
OneUser ==
    /\ \A s \in Suspects : receivers[s] # None =>
         proxy[receivers[s].proxy].suspect = s
    /\ \A t \in Pairs : transfers[t] # None =>
         /\ proxy[transfers[t].proxy].admin = t[1]
         /\ proxy[transfers[t].proxy].suspect = t[2]

\* No relay has sent more than its memory file holds: the difference that
\* memory_writer_reader computes in 32 bits never wraps.
RelayWithinFile ==
    \A t \in Pairs : transfers[t] # None => transfers[t].sent <= Len(Source(t))

\* The inductive invariant.
IndInv == TypeOK /\ OneUser /\ RelayWithinFile

WholeFile(s, mem) == \E n \in 1..files :
    mem = [i \in 1..FileSize[n] |-> [from |-> s, file |-> n, pos |-> i]]

\* What an administrator saves of a suspect is one whole file of that suspect,
\* however chunks, relays and requests follow one another, as long as no
\* session with that suspect was cut short.
SavedFilesAreWhole ==
    \A f \in saved : f.from \in late \/ WholeFile(f.from, f.mem)

\* Once no more is requested every session ends, in the receiver, the relay and
\* the administrator, unless a session with that suspect was cut short.
Busy(t) ==
    receivers[t[2]] # None \/ transfers[t] # None \/ session[t] # None
SessionsEnd ==
    <>[](\A t \in Pairs : ~Busy(t) \/ t[2] \in late)

=============================================================================
