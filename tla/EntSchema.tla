----------------------------- MODULE EntSchema -----------------------------
(***************************************************************************)
(* What ent generated from ent/schema for the three entities: which fields *)
(* a mutation has and of which kind, which setters the builders offer,     *)
(* what they default and check before saving, which columns their          *)
(* statements name, and the tables migrate creates.                        *)
(*                                                                         *)
(* The generated files repeat one pattern per field; here the pattern is   *)
(* written once (EntMutation) and this module says which fields follow it. *)
(* Go types are left out: a value is a string or a number, an instant is   *)
(* a string.                                                               *)
(***************************************************************************)
EXTENDS Integers, TLC

CONSTANT NULL               \* SQL's NULL, and a nil pointer given to a setter

Entity == {"Notification", "DeliveryAttempt", "OutboxEvent"}

(***************************************************************************)
(* Kinds of mutation fields.  Every field has Set, Get, Old and Reset; a   *)
(* numeric one also Add, an optional one also Clear.                       *)
(***************************************************************************)
Plain           == [numeric |-> FALSE, optional |-> FALSE]
Numeric         == [numeric |-> TRUE,  optional |-> FALSE]
Optional        == [numeric |-> FALSE, optional |-> TRUE]
OptionalNumeric == [numeric |-> TRUE,  optional |-> TRUE]

NotificationRequestFields ==
    [url |-> Plain, method |-> Plain, headers |-> Optional, body |-> Optional]

NotificationProgressFields ==
    [status |-> Plain, attempt_count |-> Numeric, max_attempts |-> Numeric]

NotificationOutcomeFields ==
    [last_error |-> Optional, next_attempt_at |-> Optional,
     created_at |-> Plain, updated_at |-> Plain]

DeliveryAttemptResultFields ==
    [notification_id |-> Plain, attempt_number |-> Numeric, status |-> Plain]

DeliveryAttemptAnswerFields ==
    [http_status |-> OptionalNumeric, error_message |-> Optional]

DeliveryAttemptTimingFields == [duration_ms |-> Numeric, created_at |-> Plain]

OutboxEventTaskFields ==
    [notification_id |-> Plain, event_type |-> Plain,
     status |-> Plain, scheduled_at |-> Plain]

OutboxEventClaimFields ==
    [stream_id |-> Optional, locked_by |-> Optional, locked_at |-> Optional]

OutboxEventOutcomeFields ==
    [last_error |-> Optional, published_at |-> Optional,
     created_at |-> Plain, updated_at |-> Plain]

\* f, and g where f has nothing.
f ++ g == [x \in DOMAIN f \cup DOMAIN g |-> IF x \in DOMAIN f THEN f[x] ELSE g[x]]

FieldKinds ==
    [Notification    |-> NotificationRequestFields ++ NotificationProgressFields
                            ++ NotificationOutcomeFields,
     DeliveryAttempt |-> DeliveryAttemptResultFields ++ DeliveryAttemptAnswerFields
                            ++ DeliveryAttemptTimingFields,
     OutboxEvent     |-> OutboxEventTaskFields ++ OutboxEventClaimFields
                            ++ OutboxEventOutcomeFields]

Fields(e) == DOMAIN FieldKinds[e]

-----------------------------------------------------------------------------
(***************************************************************************)
(* Create builders: the fields a builder must be given (they have no       *)
(* SetNillable setter and are not optional), what defaults() fills in,     *)
(* what check() requires, and the columns createSpec() writes.             *)
(***************************************************************************)

\* SetX of every field; SetNillableX, which ignores a nil pointer, of these.
NotificationCreateNillable ==
    {"method", "status", "attempt_count", "max_attempts", "last_error",
     "next_attempt_at", "created_at", "updated_at"}

DeliveryAttemptCreateNillable ==
    {"http_status", "error_message", "duration_ms", "created_at"}

OutboxEventCreateNillable ==
    {"event_type", "status", "scheduled_at", "stream_id", "locked_by",
     "locked_at", "last_error", "published_at", "created_at", "updated_at"}

CreateNillable ==
    [Notification    |-> NotificationCreateNillable,
     DeliveryAttempt |-> DeliveryAttemptCreateNillable,
     OutboxEvent     |-> OutboxEventCreateNillable]

NotificationDefaults ==
    [method |-> "POST", status |-> "pending", attempt_count |-> 0,
     max_attempts |-> 5, created_at |-> "now", updated_at |-> "now"]

DeliveryAttemptDefaults == [duration_ms |-> 0, created_at |-> "now"]

OutboxEventDefaults ==
    [event_type |-> "notification.delivery_requested", status |-> "pending",
     scheduled_at |-> "now", created_at |-> "now", updated_at |-> "now"]

Defaults ==
    [Notification    |-> NotificationDefaults,
     DeliveryAttempt |-> DeliveryAttemptDefaults,
     OutboxEvent     |-> OutboxEventDefaults]

NotificationRequired ==
    {"url", "method", "status", "attempt_count", "max_attempts", "created_at",
     "updated_at"}

DeliveryAttemptRequired ==
    {"notification_id", "attempt_number", "status", "duration_ms", "created_at"}

OutboxEventRequired ==
    {"notification_id", "event_type", "status", "scheduled_at", "created_at",
     "updated_at"}

Required ==
    [Notification    |-> NotificationRequired,
     DeliveryAttempt |-> DeliveryAttemptRequired,
     OutboxEvent     |-> OutboxEventRequired]

\* StatusValidator of each entity's package.
NotificationStatuses == {"pending", "delivering", "succeeded", "retrying", "failed"}
DeliveryAttemptStatuses == {"succeeded", "retrying", "failed"}
OutboxEventStatuses == {"pending", "publishing", "published", "failed"}

Statuses ==
    [Notification    |-> NotificationStatuses,
     DeliveryAttempt |-> DeliveryAttemptStatuses,
     OutboxEvent     |-> OutboxEventStatuses]

NotificationCreateSpec ==
    {"url", "method", "headers", "body", "status", "attempt_count", "max_attempts",
     "last_error", "next_attempt_at", "created_at", "updated_at"}

DeliveryAttemptCreateSpec ==
    {"notification_id", "attempt_number", "status", "http_status",
     "error_message", "duration_ms", "created_at"}

OutboxEventCreateSpec ==
    {"notification_id", "event_type", "status", "scheduled_at", "stream_id",
     "locked_by", "locked_at", "last_error", "published_at", "created_at",
     "updated_at"}

CreateSpec ==
    [Notification    |-> NotificationCreateSpec,
     DeliveryAttempt |-> DeliveryAttemptCreateSpec,
     OutboxEvent     |-> OutboxEventCreateSpec]

-----------------------------------------------------------------------------
(***************************************************************************)
(* Update builders: which fields have a SetX, which of those a             *)
(* SetNillableX, and which columns sqlSave() can set, add to and clear.    *)
(* The UpdateOne builders are generated separately, with the same ones.    *)
(***************************************************************************)

NotificationUpdateSetters ==
    [set      |-> {"url", "method", "headers", "body", "status", "attempt_count",
                   "max_attempts", "last_error", "next_attempt_at", "updated_at"},
     nillable |-> {"url", "method", "status", "attempt_count", "max_attempts",
                   "last_error", "next_attempt_at"}]

DeliveryAttemptUpdateSetters ==
    [set      |-> {"notification_id", "attempt_number", "status", "http_status",
                   "error_message", "duration_ms"},
     nillable |-> {"notification_id", "attempt_number", "status", "http_status",
                   "error_message", "duration_ms"}]

OutboxEventUpdateSetters ==
    [set      |-> {"notification_id", "event_type", "status", "scheduled_at",
                   "stream_id", "locked_by", "locked_at", "last_error",
                   "published_at", "updated_at"},
     nillable |-> {"notification_id", "event_type", "status", "scheduled_at",
                   "stream_id", "locked_by", "locked_at", "last_error",
                   "published_at"}]

NotificationUpdateOneSetters    == NotificationUpdateSetters
DeliveryAttemptUpdateOneSetters == DeliveryAttemptUpdateSetters
OutboxEventUpdateOneSetters     == OutboxEventUpdateSetters

UpdateSetters ==
    [update    |-> [Notification    |-> NotificationUpdateSetters,
                    DeliveryAttempt |-> DeliveryAttemptUpdateSetters,
                    OutboxEvent     |-> OutboxEventUpdateSetters],
     updateOne |-> [Notification    |-> NotificationUpdateOneSetters,
                    DeliveryAttempt |-> DeliveryAttemptUpdateOneSetters,
                    OutboxEvent     |-> OutboxEventUpdateOneSetters]]

NotificationUpdateSpec ==
    [set   |-> {"url", "method", "headers", "body", "status", "attempt_count",
                "max_attempts", "last_error", "next_attempt_at", "updated_at"},
     add   |-> {"attempt_count", "max_attempts"},
     clear |-> {"headers", "body", "last_error", "next_attempt_at"}]

DeliveryAttemptUpdateSpec ==
    [set   |-> {"notification_id", "attempt_number", "status", "http_status",
                "error_message", "duration_ms"},
     add   |-> {"attempt_number", "http_status", "duration_ms"},
     clear |-> {"http_status", "error_message"}]

OutboxEventUpdateSpec ==
    [set   |-> {"notification_id", "event_type", "status", "scheduled_at",
                "stream_id", "locked_by", "locked_at", "last_error",
                "published_at", "updated_at"},
     add   |-> {},
     clear |-> {"stream_id", "locked_by", "locked_at", "last_error",
                "published_at"}]

NotificationUpdateOneSpec    == NotificationUpdateSpec
DeliveryAttemptUpdateOneSpec == DeliveryAttemptUpdateSpec
OutboxEventUpdateOneSpec     == OutboxEventUpdateSpec

UpdateSpec ==
    [update    |-> [Notification    |-> NotificationUpdateSpec,
                    DeliveryAttempt |-> DeliveryAttemptUpdateSpec,
                    OutboxEvent     |-> OutboxEventUpdateSpec],
     updateOne |-> [Notification    |-> NotificationUpdateOneSpec,
                    DeliveryAttempt |-> DeliveryAttemptUpdateOneSpec,
                    OutboxEvent     |-> OutboxEventUpdateOneSpec]]

\* The update builders' defaults(); DeliveryAttempt has none.
UpdateDefaults ==
    [Notification    |-> [updated_at |-> "now"],
     DeliveryAttempt |-> [f \in {} |-> NULL],
     OutboxEvent     |-> [updated_at |-> "now"]]

-----------------------------------------------------------------------------
(***************************************************************************)
(* The tables, as migrate.Schema.Create makes them.                        *)
(***************************************************************************)

DeliveryAttemptsTable ==
    [columns  |-> {"notification_id", "attempt_number", "status", "http_status",
                   "error_message", "duration_ms", "created_at"},
     nullable |-> {"http_status", "error_message"},
     enum     |-> {"succeeded", "retrying", "failed"}]

NotificationsTable ==
    [columns  |-> {"url", "method", "headers", "body", "status", "attempt_count",
                   "max_attempts", "last_error", "next_attempt_at", "created_at",
                   "updated_at"},
     nullable |-> {"headers", "body", "last_error", "next_attempt_at"},
     enum     |-> {"pending", "delivering", "succeeded", "retrying", "failed"}]

OutboxEventsTable ==
    [columns  |-> {"notification_id", "event_type", "status", "scheduled_at",
                   "stream_id", "locked_by", "locked_at", "last_error",
                   "published_at", "created_at", "updated_at"},
     nullable |-> {"stream_id", "locked_by", "locked_at", "last_error",
                   "published_at"},
     enum     |-> {"pending", "publishing", "published", "failed"}]

Table ==
    [Notification    |-> NotificationsTable,
     DeliveryAttempt |-> DeliveryAttemptsTable,
     OutboxEvent     |-> OutboxEventsTable]
=============================================================================
