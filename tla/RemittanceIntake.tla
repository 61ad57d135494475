-------------------------- MODULE RemittanceIntake --------------------------
(***************************************************************************)
(* What the remittance application endpoint promises its callers, with no  *)
(* locks, no transactions and no clock: each delivery of an application is *)
(* answered once, either with a booked remittance or with a refusal; a     *)
(* booking consumes its idempotency key and its quotation; and a delivery  *)
(* whose application is already booked is answered with that booking.      *)
(***************************************************************************)
CONSTANTS Requests,    \* deliveries of POST .../apply/, retries included
          Keys,        \* values of the Idempotency-Key header
          Digests,     \* payload digests: payload, book and user
          Quotes,
          QuoteOf      \* [Digests -> Quotes]: quote_id is part of the payload

VARIABLES key,         \* [Requests -> Keys]: the header of each delivery
          digest,      \* [Requests -> Digests]: the body of each delivery
          outcome,     \* [Requests -> {"pending", "answered", "refused"}]
          answer       \* the booking an answered delivery was given

vars == <<key, digest, outcome, answer>>

\* A booking is named after the delivery that made it.
Booked == {r \in Requests : outcome[r] = "answered" /\ answer[r] = r}

SameApplication(r, o) == key[o] = key[r] /\ digest[o] = digest[r]

Init ==
    /\ key \in [Requests -> Keys]
    /\ digest \in [Requests -> Digests]
    /\ outcome = [r \in Requests |-> "pending"]
    /\ answer = [r \in Requests |-> r]

Book(r) ==
    /\ outcome[r] = "pending"
    /\ \A o \in Booked : key[o] # key[r] /\ QuoteOf[digest[o]] # QuoteOf[digest[r]]
    /\ outcome' = [outcome EXCEPT ![r] = "answered"]
    /\ answer' = [answer EXCEPT ![r] = r]
    /\ UNCHANGED <<key, digest>>

Replay(r) ==
    /\ outcome[r] = "pending"
    /\ \E o \in Booked :
          /\ SameApplication(r, o)
          /\ answer' = [answer EXCEPT ![r] = o]
    /\ outcome' = [outcome EXCEPT ![r] = "answered"]
    /\ UNCHANGED <<key, digest>>

\* A delivery of a booked application is never refused.
Refuse(r) ==
    /\ outcome[r] = "pending"
    /\ ~ \E o \in Booked : SameApplication(r, o)
    /\ outcome' = [outcome EXCEPT ![r] = "refused"]
    /\ UNCHANGED <<key, digest, answer>>

Next == \E r \in Requests : Book(r) \/ Replay(r) \/ Refuse(r)

Spec == Init /\ [][Next]_vars
=============================================================================
