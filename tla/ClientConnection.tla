-------------------------- MODULE ClientConnection --------------------------
(***************************************************************************)
(* One connection of the server, below the session: how packets are read   *)
(* from the socket and taken apart, how answers are put together, collected *)
(* in the response buffer and flushed, and which packets answer a message. *)
(* What the SQL does is the business of ServerSession; here a task returns *)
(* a result table, no table, or an exception.                              *)
(*                                                                         *)
(* A packet is a sequence of naturals: the type, the length, characters    *)
(* and numbers.  A number takes one place whatever its width, so that the  *)
(* lengths count places.  The client writes whole messages; the socket may *)
(* hand over fewer places than asked for, and may accept fewer.            *)
(***************************************************************************)
EXTENDS Naturals, Sequences, SequencesExt

CONSTANTS
  _max_response_size,  \* places of the response buffer (2048 bytes)
  Startups,            \* startup packets: length, version, and a body
  Requests,            \* messages: type and body
  Results,             \* what tasks return: statement type and table
  NoTable,             \* the result of a statement without a result table
  NullText,            \* what type_cast makes of a NULL
  MaxRequests,         \* bound: messages the client sends
  MaxFaults            \* bound: short reads and short writes

VARIABLES
  stage,                \* where the session is
  incoming,          \* what the client has sent and the server has not read
  request,           \* the header being handled: type and payload length
  outbox,            \* what the handler still has to send
  _response_buffer,
  flushing,          \* a send on the socket is in progress
  received,          \* what has arrived at the client
  sent,              \* all packets handed to the connection, in order
  misread,           \* a read was cut short
  torn,              \* a send was cut short: the buffer was not cleared
  requests, faults   \* bounded counters

connectionVars == <<stage, incoming, request, outbox, _response_buffer, flushing,
                    received, sent, misread, torn, requests, faults>>

-----------------------------------------------------------------------------
(* NetworkMessageType, as character codes.                                 *)
ParseComplete == 49
BindComplete == 50
CommandComplete == 67
ParameterStatus == 83
AuthenticationRequest == 82
ErrorResponse == 69
NoDataResponse == 110
ReadyForQuery == 90
RowDescription == 84
DataRow == 68
HumanReadableError == 77
SslNo == 78
Notice == 78

ExecuteCommand == 69
SyncCommand == 83
FlushCommand == 72
TerminateCommand == 88
DescribeCommand == 68
BindCommand == 66
ParseCommand == 80
SimpleQueryCommand == 81

IdleStatus == 73

(* The two bytes of a 16-bit number, swapped; its own inverse.             *)
ntohs(n) == (n % 256) * 256 + (n \div 256)
htons(n) == ntohs(n)

(* The lengths are 32 bits wide and wrap below zero; Wrapped stands for    *)
(* the numbers just below 2^32, which TLC cannot represent, and for -1.    *)
Wrapped == 2^30

Less(length, n) == IF length >= n THEN length - n ELSE Wrapped

-----------------------------------------------------------------------------
(* PostgresWireHandler: reading.  A reader has the value it has read, the  *)
(* data that is left, and whether an assertion has failed.                 *)
InputPacket(data) == [value |-> <<>>, data |-> data, ok |-> TRUE]

Failed(packet) == [packet EXCEPT !.ok = FALSE]

read_values(packet, n) ==
  IF ~packet.ok \/ n > Len(packet.data)
  THEN Failed(packet)
  ELSE [value |-> SubSeq(packet.data, 1, n), ok |-> TRUE,
        data |-> SubSeq(packet.data, n + 1, Len(packet.data))]

read_value(packet) ==
  LET read == read_values(packet, 1) IN
  IF read.ok THEN [read EXCEPT !.value = @[1]] ELSE read

(* A string ends at the first null character, or with the packet.          *)
read_string(packet) ==
  LET nulls == {i \in DOMAIN packet.data : packet.data[i] = 0}
      end == IF nulls = {} THEN Len(packet.data) + 1
             ELSE CHOOSE i \in nulls : \A j \in nulls : i <= j IN
  [value |-> SubSeq(packet.data, 1, end - 1), ok |-> packet.ok,
   data |-> SubSeq(packet.data, end + 1, Len(packet.data))]

handle_query_packet(packet) == read_string(packet)

(* The number of parameter types is used in network byte order.            *)
handle_parse_packet(packet) ==
  LET name == read_string(packet)
      query == read_string(name)
      types == read_value(query)
      rest == IF types.ok THEN read_values(types, types.value) ELSE types IN
  [ok |-> rest.ok,
   value |-> [statement_name |-> name.value, query |-> query.value]]

ReadParameter(state, unused) ==
  LET length == read_value(state.packet)
      text == IF length.ok THEN read_values(length, length.value) ELSE length IN
  [packet |-> text, values |-> Append(state.values, text.value)]

read_counted(packet) ==
  LET count == read_value(packet) IN
  IF count.ok THEN read_values(count, ntohs(count.value)) ELSE count

handle_bind_packet(packet) ==
  LET portal == read_string(packet)
      name == read_string(portal)
      formats == read_counted(name)
      count == read_value(formats)
      parameters == IF count.ok
                    THEN FoldLeft(ReadParameter, [packet |-> count, values |-> <<>>],
                                  [i \in 1..ntohs(count.value) |-> i])
                    ELSE [packet |-> count, values |-> <<>>]
      results == read_counted(parameters.packet) IN
  [ok |-> results.ok,
   value |-> [statement_name |-> name.value, destination_portal |-> portal.value,
              params |-> parameters.values]]

handle_execute_packet(packet) ==
  LET portal == read_string(packet) IN
  [ok |-> read_value(portal).ok, value |-> portal.value]

handle_describe_packet(packet) == read_string(read_value(packet))

handle_header(data) ==
  LET tag == read_value(InputPacket(data))
      length == read_value(tag) IN
  [message_type |-> tag.value, payload_length |-> Less(length.value, 1)]

(* The version number of an SSL request, and the body of any other.        *)
SslVersion == 80877103

handle_startup_package(data) ==
  IF data[2] = SslVersion THEN 0 ELSE Less(data[1], 2)

(* Whether the body of a message can be taken apart.                       *)
BodyIsReadable(type, body) ==
  CASE type = ParseCommand -> handle_parse_packet(InputPacket(body)).ok
    [] type = BindCommand -> handle_bind_packet(InputPacket(body)).ok
    [] type = DescribeCommand -> handle_describe_packet(InputPacket(body)).ok
    [] type = ExecuteCommand -> handle_execute_packet(InputPacket(body)).ok
    [] type = SimpleQueryCommand -> handle_query_packet(InputPacket(body)).ok
    [] OTHER -> TRUE

-----------------------------------------------------------------------------
(* PostgresWireHandler: writing.                                           *)
new_output_packet(type) == <<type, 0>>

write_string(packet, string, terminate) ==
  packet \o string \o (IF terminate THEN <<0>> ELSE <<>>)

(* The type does not count into the length.                                *)
write_output_packet_size(packet) == [packet EXCEPT ![2] = Len(packet) - 1]

Packet(data, flush) == [data |-> data, flush |-> flush, throws |-> FALSE]

send_ssl_denied == Packet(<<SslNo>>, TRUE)

send_auth == Packet(Append(new_output_packet(AuthenticationRequest), 0), FALSE)

send_parameter_status(key, value) ==
  Packet(write_string(write_string(new_output_packet(ParameterStatus), key, TRUE), value, TRUE), FALSE)

send_ready_for_query == Packet(Append(new_output_packet(ReadyForQuery), IdleStatus), TRUE)

Readable(type, message) ==
  Append(write_string(Append(new_output_packet(type), HumanReadableError), message, TRUE), 0)

send_error(message) == Packet(Readable(ErrorResponse, message), TRUE)

send_notice(notice) == Packet(Readable(Notice, notice), TRUE)

send_status_message(type) == Packet(new_output_packet(type), FALSE)

(* Name, no table, no attribute, type, width, no modifier, text format.    *)
DescribeColumn(packet, column) ==
  write_string(packet, column.column_name, TRUE)
    \o <<0, 0, column.object_id, column.type_width, Wrapped, 0>>

send_row_description(columns) ==
  Packet(FoldLeft(DescribeColumn,
                  Append(new_output_packet(RowDescription), htons(Len(columns))), columns), FALSE)

WriteCell(packet, string) == write_string(Append(packet, Len(string)), string, FALSE)

send_data_row(row_strings) ==
  Packet(FoldLeft(WriteCell, Append(new_output_packet(DataRow), htons(Len(row_strings))),
                  row_strings), FALSE)

send_command_complete(message) ==
  Packet(write_string(new_output_packet(CommandComplete), message, TRUE), TRUE)

-----------------------------------------------------------------------------
(* QueryResponseBuilder.  A table has columns (name and type) and chunks,  *)
(* sequences of rows of texts.                                             *)
build_row_description(table) ==
  [i \in DOMAIN table.columns |->
     LET type == table.columns[i].type IN
     [column_name |-> table.columns[i].name,
      object_id |-> CASE type = "int" -> 23 [] type = "long" -> 20 [] type = "float" -> 700
                      [] type = "double" -> 701 [] type = "string" -> 25,
      type_width |-> CASE type \in {"int", "float"} -> 4 [] type \in {"long", "double"} -> 8
                       [] type = "string" -> 2^16 - 1]]

row_count(table) == FoldLeft(LAMBDA n, chunk : n + Len(chunk), 0, table.chunks)

(* The type of the statement and, for a SELECT, the number of its rows;    *)
(* other types throw.                                                      *)
Completable == {"Select", "Insert", "Update", "Delete", "Create"}

Throwing == [data |-> <<>>, flush |-> FALSE, throws |-> TRUE]

build_command_complete_message(type, count) ==
  CASE type = "Select" -> <<115, count>>
    [] type = "Insert" -> <<105, 1>>
    [] type = "Update" -> <<117, 45, 1>>
    [] type = "Delete" -> <<100, 45, 1>>
    [] type = "Create" -> <<115, 0>>

CommandCompletes(type, count) ==
  IF type \in Completable
  THEN send_command_complete(build_command_complete_message(type, count))
  ELSE Throwing

Text(cell) == IF cell = <<>> THEN NullText ELSE cell[1]

_send_query_response_rows(chunk) ==
  [i \in DOMAIN chunk |-> send_data_row([j \in DOMAIN chunk[i] |-> Text(chunk[i][j])])]

_send_query_response_chunks(table) ==
  FoldLeft(LAMBDA rows, chunk : rows \o _send_query_response_rows(chunk), <<>>, table.chunks)

send_query_response(table) ==
  <<send_row_description(build_row_description(table))>> \o _send_query_response_chunks(table)

-----------------------------------------------------------------------------
(* The answers to the messages of the session.                             *)
StartupAnswer ==
  <<send_auth, send_parameter_status(<<118>>, <<57>>), send_ready_for_query>>

ErrorAnswer == <<send_error(<<101>>), send_ready_for_query>>

_send_simple_query_response(result) ==
  (IF result.table = NoTable THEN <<>> ELSE send_query_response(result.table[1]))
    \o <<CommandCompletes(result.type,
                          IF result.table = NoTable THEN 0 ELSE row_count(result.table[1])),
         send_notice(<<109>>), send_ready_for_query>>

_handle_execute_command(result) ==
  (IF result.table = NoTable
   THEN <<send_status_message(NoDataResponse)>>
   ELSE send_query_response(result.table[1]))
    \o <<CommandCompletes(result.type,
                          IF result.table = NoTable THEN 0 ELSE row_count(result.table[1]))>>

AnswerTo(type, result) ==
  CASE type = SimpleQueryCommand -> _send_simple_query_response(result)
    [] type = ExecuteCommand -> _handle_execute_command(result)
    [] type = ParseCommand -> <<send_status_message(ParseComplete)>>
    [] type = BindCommand -> <<send_status_message(BindComplete)>>
    [] type = SyncCommand -> <<send_ready_for_query>>
    [] type \in {DescribeCommand, FlushCommand} -> <<>>

Supported == {SimpleQueryCommand, ParseCommand, BindCommand, DescribeCommand,
              SyncCommand, FlushCommand, ExecuteCommand}

-----------------------------------------------------------------------------
NoRequest == [message_type |-> 0, payload_length |-> 0]

InitConnection ==
  /\ stage = "startup"
  /\ incoming \in Startups
  /\ request = NoRequest
  /\ outbox = <<>> /\ _response_buffer = <<>> /\ flushing = FALSE
  /\ received = <<>> /\ sent = <<>> /\ misread = FALSE /\ torn = FALSE
  /\ requests = 0 /\ faults = 0

(* The client writes a message, or once more a startup packet when it was  *)
(* denied SSL.                                                             *)
ClientSends(message) ==
  /\ requests < MaxRequests /\ requests' = requests + 1
  /\ incoming' = incoming \o message
  /\ UNCHANGED <<stage, request, outbox, _response_buffer, flushing, received, sent, misread, torn, faults>>

(* The socket hands over what has arrived, at most size places.  Fewer     *)
(* than size throw, and are not put back: the next read goes on after them. *)
_receive_bytes_async(size, Whole(_), Short) ==
  /\ outbox = <<>> /\ ~flushing
  /\ \/ /\ size <= Len(incoming)
        /\ incoming' = SubSeq(incoming, size + 1, Len(incoming))
        /\ UNCHANGED <<faults, misread>>
        /\ Whole(SubSeq(incoming, 1, size))
     \/ /\ IF size <= Len(incoming) THEN faults < MaxFaults /\ faults' = faults + 1
           ELSE UNCHANGED faults
        /\ \E n \in 1..Len(incoming) :
             n < size /\ incoming' = SubSeq(incoming, n + 1, Len(incoming))
        /\ misread' = TRUE
        /\ Short

Respond(next, packets) == stage' = next /\ outbox' = packets

(* An exception that no handler of a command catches ends the session.     *)
EndSession == stage' = "ended" /\ outbox' = <<>> /\ UNCHANGED request

(* The handler of exceptions of process_command.                           *)
CommandThrows == Respond("failed", ErrorAnswer) /\ UNCHANGED request

receive_startup_packet_header ==
  /\ stage = "startup"
  /\ LET Header(data) ==
           LET size == handle_startup_package(data) IN
           /\ request' = [message_type |-> 0, payload_length |-> size]
           /\ IF size = 0 THEN Respond("denied", <<send_ssl_denied>>)
              ELSE Respond("startup_body", <<>>)
     IN _receive_bytes_async(2, Header, EndSession)
  /\ UNCHANGED <<_response_buffer, flushing, received, sent, torn, requests>>

(* The startup packet of an SSL request has no body.                       *)
StartAgain ==
  /\ stage = "denied" /\ outbox = <<>> /\ ~flushing
  /\ stage' = "startup"
  /\ UNCHANGED <<incoming, request, outbox, _response_buffer, flushing, received, sent, misread, torn, requests, faults>>

receive_startup_packet_body ==
  /\ stage = "startup_body"
  /\ LET Body(data) == Respond("started", StartupAnswer) /\ UNCHANGED request
     IN _receive_bytes_async(request.payload_length, Body, EndSession)
  /\ UNCHANGED <<_response_buffer, flushing, received, sent, torn, requests>>

(* Terminate ends the session; an unsupported type throws before there is  *)
(* a future whose exceptions the handler could see.                        *)
receive_packet_header ==
  /\ stage = "header"
  /\ LET Header(data) ==
           /\ request' = handle_header(data)
           /\ outbox' = <<>>
           /\ stage' = IF data[1] \in Supported THEN "body" ELSE "ended"
     IN _receive_bytes_async(2, Header, EndSession)
  /\ UNCHANGED <<_response_buffer, flushing, received, sent, torn, requests>>

receive_body ==
  /\ stage = "body"
  /\ LET Body(data) ==
           IF BodyIsReadable(request.message_type, data)
           THEN Respond("task", <<>>) /\ UNCHANGED request
           ELSE CommandThrows
     IN _receive_bytes_async(request.payload_length, Body, CommandThrows)
  /\ UNCHANGED <<_response_buffer, flushing, received, sent, torn, requests>>

(* The task of the command has finished with a result, or has thrown.      *)
TaskReturns(result) ==
  /\ stage = "task"
  /\ Respond("answering", AnswerTo(request.message_type, result))
  /\ UNCHANGED <<incoming, request, _response_buffer, flushing, received, sent, misread, torn, requests, faults>>

TaskThrows ==
  /\ stage = "task" /\ request.message_type \notin {DescribeCommand, FlushCommand}
  /\ CommandThrows
  /\ UNCHANGED <<incoming, _response_buffer, flushing, received, sent, misread, torn, requests, faults>>

(* An exception while an answer is sent: in a command it is answered by an *)
(* error, elsewhere and while the error is sent it ends the session.       *)
SendThrows == IF stage = "answering" THEN CommandThrows ELSE EndSession

Sized(packet) ==
  IF Len(packet.data) > 1 THEN write_output_packet_size(packet.data) ELSE packet.data

(* Mutant: the packet goes into the buffer whatever is in it already.      *)
SendIgnoresLimit ==
  /\ outbox # <<>> /\ ~flushing
  /\ LET data == Sized(outbox[1]) IN
       IF outbox[1].throws \/ Len(data) > _max_response_size
       THEN SendThrows /\ UNCHANGED <<_response_buffer, flushing, sent>>
       ELSE /\ _response_buffer' = _response_buffer \o data
            /\ sent' = Append(sent, data)
            /\ flushing' = outbox[1].flush
            /\ outbox' = Tail(outbox)
            /\ UNCHANGED <<stage, request>>
  /\ UNCHANGED <<incoming, received, misread, torn, requests, faults>>

(* A packet that does not fit is sent again once the buffer is flushed.    *)
_send_bytes_async ==
  /\ outbox # <<>> /\ ~flushing
  /\ LET data == Sized(outbox[1]) IN
       CASE outbox[1].throws \/ Len(data) > _max_response_size ->
              SendThrows /\ UNCHANGED <<_response_buffer, flushing, sent>>
         [] OTHER ->
              IF Len(_response_buffer) + Len(data) > _max_response_size
              THEN /\ flushing' = TRUE
                   /\ UNCHANGED <<stage, request, outbox, _response_buffer, sent>>
              ELSE /\ _response_buffer' = _response_buffer \o data
                   /\ sent' = Append(sent, data)
                   /\ flushing' = outbox[1].flush
                   /\ outbox' = Tail(outbox)
                   /\ UNCHANGED <<stage, request>>
  /\ UNCHANGED <<incoming, received, misread, torn, requests, faults>>

_flush_async ==
  /\ flushing
  /\ received' = received \o _response_buffer
  /\ _response_buffer' = <<>>
  /\ flushing' = FALSE
  /\ UNCHANGED <<stage, incoming, request, outbox, sent, misread, torn, requests, faults>>

(* The socket accepts only a part: the assertion leaves the buffer as it is. *)
FlushCutShort ==
  /\ flushing
  /\ faults < MaxFaults /\ faults' = faults + 1
  /\ \E n \in 0..(Len(_response_buffer) - 1) :
       received' = received \o SubSeq(_response_buffer, 1, n)
  /\ flushing' = FALSE /\ torn' = TRUE
  /\ SendThrows
  /\ UNCHANGED <<incoming, _response_buffer, sent, misread, requests>>

(* The answer is complete, and the loop waits for the next message.        *)
_handle_client_requests ==
  /\ stage \in {"started", "answering", "failed"} /\ outbox = <<>> /\ ~flushing
  /\ stage' = "header" /\ request' = NoRequest
  /\ UNCHANGED <<incoming, outbox, _response_buffer, flushing, received, sent, misread, torn, requests, faults>>

SessionStep ==
  \/ receive_startup_packet_header \/ StartAgain \/ receive_startup_packet_body
  \/ receive_packet_header \/ receive_body
  \/ \E result \in Results : TaskReturns(result)
  \/ TaskThrows
  \/ _send_bytes_async \/ _flush_async \/ FlushCutShort
  \/ _handle_client_requests

NextConnection == SessionStep \/ \E message \in Requests \cup Startups : ClientSends(message)

=============================================================================
