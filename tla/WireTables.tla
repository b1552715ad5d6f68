----------------------------- MODULE WireTables ------------------------------
(***************************************************************************)
(* The generated protobuf messages of src/backend/gen (calc/v1 and         *)
(* audit/v1), one table per generated method: the generator unrolls them   *)
(* into straight code, WireCodec interprets them.                          *)
(*                                                                         *)
(* A string is its bytes; a double is its eight bytes, low first; an enum  *)
(* is an int32; a map is the sequence of its entries in the order Go's     *)
(* iteration takes, which is any order.  A field of kind "message" or      *)
(* "messages" names the type of what it holds.                             *)
(***************************************************************************)
EXTENDS Integers, Sequences

CONSTANT Nil   \* a nil pointer

PlusZero  == <<0, 0, 0, 0, 0, 0, 0, 0>>
MinusZero == <<0, 0, 0, 0, 0, 0, 0, 128>>

(* External: google.protobuf.Timestamp, and Struct as one opaque field.    *)
ZeroTimestamp      == [Seconds |-> 0, Nanos |-> 0, unknown |-> <<>>]
MarshalTimestamp   == <<<<8, "Seconds", "int64">>, <<16, "Nanos", "int32">>>>
SizeTimestamp      == <<<<1, "Seconds", "int64">>, <<1, "Nanos", "int32">>>>
UnmarshalTimestamp == <<<<0, "Seconds", "int64">>, <<0, "Nanos", "int32">>>>
ZeroStruct         == [Fields |-> <<>>, unknown |-> <<>>]
MarshalStruct      == <<<<10, "Fields", "string">>>>
SizeStruct         == <<<<1, "Fields", "string">>>>
UnmarshalStruct    == <<<<2, "Fields", "string">>>>

(***************************************************************************)
(* The messages as the code allocates them: every field at its zero, no    *)
(* submessages.  The getters return the same zeros for a nil receiver.     *)
(***************************************************************************)
ZeroSubmitExpressionRequest == [Raw |-> <<>>, unknown |-> <<>>]
ZeroGetExpressionRequest == [Id |-> <<>>, unknown |-> <<>>]
ZeroListExpressionsRequest == [PageSize |-> 0, Page |-> 0, unknown |-> <<>>]
ZeroListExpressionsResponse ==
    [Expressions |-> <<>>, Total |-> 0, unknown |-> <<>>]
ZeroExpression ==
    [Id |-> <<>>, Raw |-> <<>>, Status |-> 0, HasResult |-> FALSE,
     Result |-> PlusZero, Error |-> <<>>, TraceId |-> <<>>, CreatedAt |-> Nil,
     DoneAt |-> Nil, Progress |-> Nil, unknown |-> <<>>]
ZeroProgress == [Total |-> 0, Done |-> 0, unknown |-> <<>>]
ZeroTaskNode ==
    [Id |-> <<>>, Op |-> <<>>, Status |-> 0, HasArg1Value |-> FALSE,
     Arg1Value |-> PlusZero, Arg1TaskId |-> <<>>, HasArg2Value |-> FALSE,
     Arg2Value |-> PlusZero, Arg2TaskId |-> <<>>, HasResult |-> FALSE,
     Result |-> PlusZero, WorkerId |-> <<>>, Attempt |-> 0, IsRoot |-> FALSE,
     QueuedAt |-> Nil, StartedAt |-> Nil, FinishedAt |-> Nil, unknown |-> <<>>]
ZeroTaskGraph == [ExpressionId |-> <<>>, Tasks |-> <<>>, unknown |-> <<>>]
ZeroAuditEvent ==
    [Id |-> <<>>, OccurredAt |-> Nil, EventType |-> <<>>, Service |-> <<>>,
     EntityType |-> <<>>, EntityId |-> <<>>, TraceId |-> <<>>, Actor |-> <<>>,
     Payload |-> Nil, unknown |-> <<>>]
ZeroWriteEventsRequest == [Events |-> <<>>, unknown |-> <<>>]
ZeroWriteEventsResponse ==
    [Accepted |-> 0, Deduplicated |-> 0, unknown |-> <<>>]
ZeroQueryEventsRequest ==
    [From |-> Nil, To |-> Nil, EventType |-> <<>>, EntityType |-> <<>>,
     EntityId |-> <<>>, TraceId |-> <<>>, PageSize |-> 0, CursorTs |-> Nil,
     CursorId |-> <<>>, unknown |-> <<>>]
ZeroQueryEventsResponse ==
    [Events |-> <<>>, NextCursorTs |-> Nil, NextCursorId |-> <<>>,
     unknown |-> <<>>]
ZeroGetStatsRequest == [unknown |-> <<>>]
ZeroAuditStats ==
    [Total |-> 0, ByType |-> <<>>, IngestLastMinute |-> 0, unknown |-> <<>>]

(***************************************************************************)
(* What MarshalToSizedBufferVT leaves, in byte order (it fills its         *)
(* buffer from the end).  A tag is the bytes the code writes, as a varint. *)
(***************************************************************************)
MarshalSubmitExpressionRequest == <<<<10, "Raw", "string">>>>
MarshalGetExpressionRequest == <<<<10, "Id", "string">>>>
MarshalListExpressionsRequest ==
    <<<<8, "PageSize", "int32">>, <<16, "Page", "int32">>>>
MarshalListExpressionsResponse ==
    <<<<10, "Expressions", "messages", "Expression">>,
     <<16, "Total", "int64">>>>
MarshalExpression ==
    <<<<10, "Id", "string">>, <<18, "Raw", "string">>,
     <<24, "Status", "int32">>, <<32, "HasResult", "bool">>,
     <<41, "Result", "double">>, <<50, "Error", "string">>,
     <<58, "TraceId", "string">>, <<66, "CreatedAt", "message", "Timestamp">>,
     <<74, "DoneAt", "message", "Timestamp">>,
     <<82, "Progress", "message", "Progress">>>>
MarshalProgress == <<<<8, "Total", "int32">>, <<16, "Done", "int32">>>>
MarshalTaskNode ==
    <<<<10, "Id", "string">>, <<18, "Op", "string">>,
     <<24, "Status", "int32">>, <<32, "HasArg1Value", "bool">>,
     <<41, "Arg1Value", "double">>, <<50, "Arg1TaskId", "string">>,
     <<56, "HasArg2Value", "bool">>, <<65, "Arg2Value", "double">>,
     <<74, "Arg2TaskId", "string">>, <<80, "HasResult", "bool">>,
     <<89, "Result", "double">>, <<98, "WorkerId", "string">>,
     <<104, "Attempt", "int32">>, <<112, "IsRoot", "bool">>,
     <<122, "QueuedAt", "message", "Timestamp">>,
     <<130, "StartedAt", "message", "Timestamp">>,
     <<138, "FinishedAt", "message", "Timestamp">>>>
MarshalTaskGraph ==
    <<<<10, "ExpressionId", "string">>,
     <<18, "Tasks", "messages", "TaskNode">>>>
MarshalAuditEvent ==
    <<<<10, "Id", "string">>, <<18, "OccurredAt", "message", "Timestamp">>,
     <<26, "EventType", "string">>, <<34, "Service", "string">>,
     <<42, "EntityType", "string">>, <<50, "EntityId", "string">>,
     <<58, "TraceId", "string">>, <<66, "Actor", "string">>,
     <<74, "Payload", "message", "Struct">>>>
MarshalWriteEventsRequest == <<<<10, "Events", "messages", "AuditEvent">>>>
MarshalWriteEventsResponse ==
    <<<<8, "Accepted", "int32">>, <<16, "Deduplicated", "int32">>>>
MarshalQueryEventsRequest ==
    <<<<10, "From", "message", "Timestamp">>,
     <<18, "To", "message", "Timestamp">>, <<26, "EventType", "string">>,
     <<34, "EntityType", "string">>, <<42, "EntityId", "string">>,
     <<50, "TraceId", "string">>, <<56, "PageSize", "int32">>,
     <<66, "CursorTs", "message", "Timestamp">>, <<74, "CursorId", "string">>>>
MarshalQueryEventsResponse ==
    <<<<10, "Events", "messages", "AuditEvent">>,
     <<18, "NextCursorTs", "message", "Timestamp">>,
     <<26, "NextCursorId", "string">>>>
MarshalGetStatsRequest == <<>>
MarshalAuditStats ==
    <<<<8, "Total", "int64">>, <<18, "ByType", "map">>,
     <<24, "IngestLastMinute", "int64">>>>

(***************************************************************************)
(* SizeVT: what a field adds beside its value and length; for a bool or a  *)
(* double, all it adds.                                                    *)
(***************************************************************************)
SizeSubmitExpressionRequest == <<<<1, "Raw", "string">>>>
SizeGetExpressionRequest == <<<<1, "Id", "string">>>>
SizeListExpressionsRequest ==
    <<<<1, "PageSize", "int32">>, <<1, "Page", "int32">>>>
SizeListExpressionsResponse ==
    <<<<1, "Expressions", "messages", "Expression">>, <<1, "Total", "int64">>>>
SizeExpression ==
    <<<<1, "Id", "string">>, <<1, "Raw", "string">>, <<1, "Status", "int32">>,
     <<2, "HasResult", "bool">>, <<9, "Result", "double">>,
     <<1, "Error", "string">>, <<1, "TraceId", "string">>,
     <<1, "CreatedAt", "message", "Timestamp">>,
     <<1, "DoneAt", "message", "Timestamp">>,
     <<1, "Progress", "message", "Progress">>>>
SizeProgress == <<<<1, "Total", "int32">>, <<1, "Done", "int32">>>>
(* Mutant: the two-byte tag of a field above 15 is counted as one byte.    *)
SizeTaskNodeShortTag ==
    <<<<1, "Id", "string">>, <<1, "Op", "string">>, <<1, "Status", "int32">>,
     <<2, "HasArg1Value", "bool">>, <<9, "Arg1Value", "double">>,
     <<1, "Arg1TaskId", "string">>, <<2, "HasArg2Value", "bool">>,
     <<9, "Arg2Value", "double">>, <<1, "Arg2TaskId", "string">>,
     <<2, "HasResult", "bool">>, <<9, "Result", "double">>,
     <<1, "WorkerId", "string">>, <<1, "Attempt", "int32">>,
     <<2, "IsRoot", "bool">>, <<1, "QueuedAt", "message", "Timestamp">>,
     <<2, "StartedAt", "message", "Timestamp">>,
     <<1, "FinishedAt", "message", "Timestamp">>>>

SizeTaskNode ==
    <<<<1, "Id", "string">>, <<1, "Op", "string">>, <<1, "Status", "int32">>,
     <<2, "HasArg1Value", "bool">>, <<9, "Arg1Value", "double">>,
     <<1, "Arg1TaskId", "string">>, <<2, "HasArg2Value", "bool">>,
     <<9, "Arg2Value", "double">>, <<1, "Arg2TaskId", "string">>,
     <<2, "HasResult", "bool">>, <<9, "Result", "double">>,
     <<1, "WorkerId", "string">>, <<1, "Attempt", "int32">>,
     <<2, "IsRoot", "bool">>, <<1, "QueuedAt", "message", "Timestamp">>,
     <<2, "StartedAt", "message", "Timestamp">>,
     <<2, "FinishedAt", "message", "Timestamp">>>>
SizeTaskGraph ==
    <<<<1, "ExpressionId", "string">>, <<1, "Tasks", "messages", "TaskNode">>>>
SizeAuditEvent ==
    <<<<1, "Id", "string">>, <<1, "OccurredAt", "message", "Timestamp">>,
     <<1, "EventType", "string">>, <<1, "Service", "string">>,
     <<1, "EntityType", "string">>, <<1, "EntityId", "string">>,
     <<1, "TraceId", "string">>, <<1, "Actor", "string">>,
     <<1, "Payload", "message", "Struct">>>>
SizeWriteEventsRequest == <<<<1, "Events", "messages", "AuditEvent">>>>
SizeWriteEventsResponse ==
    <<<<1, "Accepted", "int32">>, <<1, "Deduplicated", "int32">>>>
SizeQueryEventsRequest ==
    <<<<1, "From", "message", "Timestamp">>,
     <<1, "To", "message", "Timestamp">>, <<1, "EventType", "string">>,
     <<1, "EntityType", "string">>, <<1, "EntityId", "string">>,
     <<1, "TraceId", "string">>, <<1, "PageSize", "int32">>,
     <<1, "CursorTs", "message", "Timestamp">>, <<1, "CursorId", "string">>>>
SizeQueryEventsResponse ==
    <<<<1, "Events", "messages", "AuditEvent">>,
     <<1, "NextCursorTs", "message", "Timestamp">>,
     <<1, "NextCursorId", "string">>>>
SizeGetStatsRequest == <<>>
SizeAuditStats ==
    <<<<1, "Total", "int64">>, <<1, "ByType", "map">>,
     <<1, "IngestLastMinute", "int64">>>>

(***************************************************************************)
(* UnmarshalVT: the wire type each case of its switch insists on.          *)
(***************************************************************************)
UnmarshalSubmitExpressionRequest == <<<<2, "Raw", "string">>>>
UnmarshalGetExpressionRequest == <<<<2, "Id", "string">>>>
UnmarshalListExpressionsRequest ==
    <<<<0, "PageSize", "int32">>, <<0, "Page", "int32">>>>
UnmarshalListExpressionsResponse ==
    <<<<2, "Expressions", "messages", "Expression">>, <<0, "Total", "int64">>>>
UnmarshalExpression ==
    <<<<2, "Id", "string">>, <<2, "Raw", "string">>, <<0, "Status", "int32">>,
     <<0, "HasResult", "bool">>, <<1, "Result", "double">>,
     <<2, "Error", "string">>, <<2, "TraceId", "string">>,
     <<2, "CreatedAt", "message", "Timestamp">>,
     <<2, "DoneAt", "message", "Timestamp">>,
     <<2, "Progress", "message", "Progress">>>>
UnmarshalProgress == <<<<0, "Total", "int32">>, <<0, "Done", "int32">>>>
UnmarshalTaskNode ==
    <<<<2, "Id", "string">>, <<2, "Op", "string">>, <<0, "Status", "int32">>,
     <<0, "HasArg1Value", "bool">>, <<1, "Arg1Value", "double">>,
     <<2, "Arg1TaskId", "string">>, <<0, "HasArg2Value", "bool">>,
     <<1, "Arg2Value", "double">>, <<2, "Arg2TaskId", "string">>,
     <<0, "HasResult", "bool">>, <<1, "Result", "double">>,
     <<2, "WorkerId", "string">>, <<0, "Attempt", "int32">>,
     <<0, "IsRoot", "bool">>, <<2, "QueuedAt", "message", "Timestamp">>,
     <<2, "StartedAt", "message", "Timestamp">>,
     <<2, "FinishedAt", "message", "Timestamp">>>>
UnmarshalTaskGraph ==
    <<<<2, "ExpressionId", "string">>, <<2, "Tasks", "messages", "TaskNode">>>>
UnmarshalAuditEvent ==
    <<<<2, "Id", "string">>, <<2, "OccurredAt", "message", "Timestamp">>,
     <<2, "EventType", "string">>, <<2, "Service", "string">>,
     <<2, "EntityType", "string">>, <<2, "EntityId", "string">>,
     <<2, "TraceId", "string">>, <<2, "Actor", "string">>,
     <<2, "Payload", "message", "Struct">>>>
UnmarshalWriteEventsRequest == <<<<2, "Events", "messages", "AuditEvent">>>>
UnmarshalWriteEventsResponse ==
    <<<<0, "Accepted", "int32">>, <<0, "Deduplicated", "int32">>>>
UnmarshalQueryEventsRequest ==
    <<<<2, "From", "message", "Timestamp">>,
     <<2, "To", "message", "Timestamp">>, <<2, "EventType", "string">>,
     <<2, "EntityType", "string">>, <<2, "EntityId", "string">>,
     <<2, "TraceId", "string">>, <<0, "PageSize", "int32">>,
     <<2, "CursorTs", "message", "Timestamp">>, <<2, "CursorId", "string">>>>
UnmarshalQueryEventsResponse ==
    <<<<2, "Events", "messages", "AuditEvent">>,
     <<2, "NextCursorTs", "message", "Timestamp">>,
     <<2, "NextCursorId", "string">>>>
UnmarshalGetStatsRequest == <<>>
UnmarshalAuditStats ==
    <<<<0, "Total", "int64">>, <<2, "ByType", "map">>,
     <<0, "IngestLastMinute", "int64">>>>

(* An entry of ByType, read like a message.  The code checks its bytes     *)
(* against the end of the whole buffer and not its wire types, which is no *)
(* difference for the bytes of an entry that arrived whole.                *)
ZeroByTypeEntry == [key |-> <<>>, value |-> 0, unknown |-> <<>>]
UnmarshalByTypeEntry == <<<<2, "key", "string">>, <<0, "value", "int64">>>>


(* A message type by its name.                                             *)
Zero ==
    [SubmitExpressionRequest |-> ZeroSubmitExpressionRequest,
     GetExpressionRequest |-> ZeroGetExpressionRequest,
     ListExpressionsRequest |-> ZeroListExpressionsRequest,
     ListExpressionsResponse |-> ZeroListExpressionsResponse,
     Expression |-> ZeroExpression,
     Progress |-> ZeroProgress,
     TaskNode |-> ZeroTaskNode,
     TaskGraph |-> ZeroTaskGraph,
     AuditEvent |-> ZeroAuditEvent,
     WriteEventsRequest |-> ZeroWriteEventsRequest,
     WriteEventsResponse |-> ZeroWriteEventsResponse,
     QueryEventsRequest |-> ZeroQueryEventsRequest,
     QueryEventsResponse |-> ZeroQueryEventsResponse,
     GetStatsRequest |-> ZeroGetStatsRequest,
     AuditStats |-> ZeroAuditStats,
     Timestamp |-> ZeroTimestamp,
     Struct |-> ZeroStruct,
     ByTypeEntry |-> ZeroByTypeEntry]
MarshalFields ==
    [SubmitExpressionRequest |-> MarshalSubmitExpressionRequest,
     GetExpressionRequest |-> MarshalGetExpressionRequest,
     ListExpressionsRequest |-> MarshalListExpressionsRequest,
     ListExpressionsResponse |-> MarshalListExpressionsResponse,
     Expression |-> MarshalExpression,
     Progress |-> MarshalProgress,
     TaskNode |-> MarshalTaskNode,
     TaskGraph |-> MarshalTaskGraph,
     AuditEvent |-> MarshalAuditEvent,
     WriteEventsRequest |-> MarshalWriteEventsRequest,
     WriteEventsResponse |-> MarshalWriteEventsResponse,
     QueryEventsRequest |-> MarshalQueryEventsRequest,
     QueryEventsResponse |-> MarshalQueryEventsResponse,
     GetStatsRequest |-> MarshalGetStatsRequest,
     AuditStats |-> MarshalAuditStats,
     Timestamp |-> MarshalTimestamp,
     Struct |-> MarshalStruct]
SizeFields ==
    [SubmitExpressionRequest |-> SizeSubmitExpressionRequest,
     GetExpressionRequest |-> SizeGetExpressionRequest,
     ListExpressionsRequest |-> SizeListExpressionsRequest,
     ListExpressionsResponse |-> SizeListExpressionsResponse,
     Expression |-> SizeExpression,
     Progress |-> SizeProgress,
     TaskNode |-> SizeTaskNode,
     TaskGraph |-> SizeTaskGraph,
     AuditEvent |-> SizeAuditEvent,
     WriteEventsRequest |-> SizeWriteEventsRequest,
     WriteEventsResponse |-> SizeWriteEventsResponse,
     QueryEventsRequest |-> SizeQueryEventsRequest,
     QueryEventsResponse |-> SizeQueryEventsResponse,
     GetStatsRequest |-> SizeGetStatsRequest,
     AuditStats |-> SizeAuditStats,
     Timestamp |-> SizeTimestamp,
     Struct |-> SizeStruct]
UnmarshalFields ==
    [SubmitExpressionRequest |-> UnmarshalSubmitExpressionRequest,
     GetExpressionRequest |-> UnmarshalGetExpressionRequest,
     ListExpressionsRequest |-> UnmarshalListExpressionsRequest,
     ListExpressionsResponse |-> UnmarshalListExpressionsResponse,
     Expression |-> UnmarshalExpression,
     Progress |-> UnmarshalProgress,
     TaskNode |-> UnmarshalTaskNode,
     TaskGraph |-> UnmarshalTaskGraph,
     AuditEvent |-> UnmarshalAuditEvent,
     WriteEventsRequest |-> UnmarshalWriteEventsRequest,
     WriteEventsResponse |-> UnmarshalWriteEventsResponse,
     QueryEventsRequest |-> UnmarshalQueryEventsRequest,
     QueryEventsResponse |-> UnmarshalQueryEventsResponse,
     GetStatsRequest |-> UnmarshalGetStatsRequest,
     AuditStats |-> UnmarshalAuditStats,
     Timestamp |-> UnmarshalTimestamp,
     Struct |-> UnmarshalStruct,
     ByTypeEntry |-> UnmarshalByTypeEntry]
=============================================================================
