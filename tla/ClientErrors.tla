---------------------------- MODULE ClientErrors ----------------------------
(***************************************************************************)
(* What the error handlers of the Kafka and RabbitMQ clients make of an     *)
(* exception (kafka-client.error.handler.ts, rabbit-mq-client.error-        *)
(* handler.ts).  A kafkajs error carries its cause; an exception is         *)
(* therefore a chain of classes, outermost first.  Messages and codes are   *)
(* left out.                                                                *)
(***************************************************************************)
EXTENDS Naturals, Sequences

\* Classes of exceptions, told apart by the handlers.
KafkaTimeouts == {"KafkaJSLockTimeout", "KafkaJSRequestTimeoutError",
                  "KafkaJSNumberOfRetriesExceeded", "ConnectionTimeout", "KafkaJSTimeout"}
KafkaInternals == {"KafkaJSNonRetriableError", "KafkaJSBrokerNotFound", "INVALID_RECORD"}
KafkaJSErrors == KafkaTimeouts \cup KafkaInternals \cup {"KafkaJSConnectionError", "KafkaJSError"}
Timeouts == {"TimeoutError", "TimeoutErrorRxjs"}
Classes == KafkaJSErrors \cup Timeouts \cup {"RabbitMqError", "Error", "string", "object", "other"}

Kinds == {"timeout", "external", "internal"}

\* The recursion of getCause(): go on to the cause while it is a kafkajs error
\* with a cause; a cause that is no kafkajs error gives the error above it.
getCause(exception) ==
    LET from[i \in 1 .. Len(exception)] ==
            CASE exception[i] \notin KafkaJSErrors -> IF i = 1 THEN exception[1] ELSE exception[i - 1]
              [] i = Len(exception) -> exception[i]
              [] OTHER -> from[i + 1]
    IN  from[1]

handleKafkaError(exception) ==
    LET cause == getCause(exception)
    IN  CASE cause \in Timeouts \cup KafkaTimeouts -> "timeout"
          [] cause \in KafkaInternals -> "internal"
          [] cause \in KafkaJSErrors -> "external"
          [] OTHER -> "internal"

handleRabbitError(class) ==
    CASE class \in Timeouts -> "timeout"
      [] class = "RabbitMqError" -> "external"
      [] OTHER -> "internal"
=============================================================================
