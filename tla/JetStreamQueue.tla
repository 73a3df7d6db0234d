--------------------------- MODULE JetStreamQueue ---------------------------
(***************************************************************************)
(* One message of a NATS JetStream work-queue stream with an explicit-ack  *)
(* pull consumer, as the Ansible executor uses it (the streams and         *)
(* consumers that _ensure_stream_and_consumer declares).  The broker is    *)
(* external: what is modelled is at-least-once delivery with a delivery    *)
(* counter, an ack deadline, and the limit max_deliver after which the     *)
(* broker keeps the message but never delivers it again.                   *)
(***************************************************************************)
EXTENDS Naturals

\* "ready": to be delivered; "pending": delivered, waiting for an ack.
\* body is the verdict a callback-retry message carries.
Message ==
    [state     : {"absent", "ready", "pending"},
     delivered : Nat,
     body      : {"none", "success", "failed"}]

NoMessage == [state |-> "absent", delivered |-> 0, body |-> "none"]

InStream(m) == m.state # "absent"

publish(body) == [state |-> "ready", delivered |-> 0, body |-> body]

CanDeliver(m, maxDeliver) == m.state = "ready" /\ m.delivered < maxDeliver

deliver(m) == [m EXCEPT !.state = "pending", !.delivered = @ + 1]

\* Acks and naks name the stream sequence: any delivery's answer counts.
ack(m) == NoMessage

nak(m) == IF m.state = "pending" THEN [m EXCEPT !.state = "ready"] ELSE m

ack_wait_expired(m) == [m EXCEPT !.state = "ready"]

\* Deleting and re-adding the durable consumer forgets every delivery.
recreate_consumer(m) ==
    IF InStream(m) THEN [m EXCEPT !.state = "ready", !.delivered = 0] ELSE m
=============================================================================
