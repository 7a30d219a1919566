------------------------- MODULE MqttSubscriptions -------------------------
(***************************************************************************)
(* Topic filters in stack/src/mqtt/client.c: threads that subscribe and    *)
(* unsubscribe, the table of remembered filters, and the reader thread     *)
(* that loses the connection, gets it back and restores the table on it.   *)
(* Packet identifiers and the waits are the subject of MqttPublish: here a *)
(* reply names the call it is for, and a wait may end at any time.         *)
(***************************************************************************)
EXTENDS Naturals, Sequences, FiniteSets, SequencesExt

CONSTANTS
    Filters,
    FilterCalls, \* one element per call of subscribe or unsubscribe
    Kind,        \* which of the two
    Filter,      \* its topic_filter
    Denied,      \* the filters the broker refuses
    Remembered,  \* the table when the behaviour begins
    MaxSubs,     \* NCL_MQTT_MAX_SUBSCRIPTIONS
    MaxSubacks,  \* NCL_MQTT_MAX_SUBACKS
    MaxBreaks,   \* bound on the number of lost connections
    Apart,       \* no call of unsubscribe begins during a restore
    NoCaller, NoFilter

ASSUME SubscriptionsAssumption ==
    /\ Kind \in [FilterCalls -> {"subscribe", "unsubscribe"}]
    /\ Filter \in [FilterCalls -> Filters]
    /\ Denied \subseteq Filters
    /\ Remembered \in Seq(Filters) /\ Len(Remembered) <= MaxSubs
    /\ \A i, j \in DOMAIN Remembered : Remembered[i] = Remembered[j] => i = j
    /\ MaxSubs \in Nat \ {0} /\ MaxSubacks \in Nat \ {0} /\ MaxBreaks \in Nat
    /\ Apart \in BOOLEAN
    /\ NoCaller \notin FilterCalls /\ NoFilter \notin Filters

VARIABLES
    subs,        \* client->subscriptions, client->subscription_count
    linked,      \* client->sock # NULL
    online,      \* client->connected
    stage,       \* where each call stands
    reply,       \* what its slot of client->subacks says
    outcome,     \* what it returned
    restore,     \* the reader's locals in restore_subscriptions
    outgoing, incoming,   \* packets in flight, oldest first
    active,      \* the broker's subscriptions of this session
    breaks

table      == <<subs, restore>>
connection == <<linked, online, breaks>>
callers    == <<stage, reply, outcome>>
packets    == <<outgoing, incoming, active>>
subs_vars  == <<table, connection, callers, packets>>

-----------------------------------------------------------------------------
InTable    == {subs[i] : i \in DOMAIN subs}
CallPlaces == {"start", "check", "acquire", "send", "wait", "returned"}
\* restore.step; "idle" means that the reader is in its session loop.
Steps      == {"idle", "count", "read", "remember", "acquire", "send"}
NoRestore  == [step |-> "idle", i |-> 0, count |-> 0, filter |-> NoFilter]

\* The slots of client->subacks that are taken, the reader's own included.
SlotsTaken == Cardinality({c \in FilterCalls : stage[c] \in {"send", "wait"}})
                 + (IF restore.step = "send" THEN 1 ELSE 0)

SubsInit ==
    /\ subs = Remembered
    /\ linked = TRUE /\ online = TRUE /\ breaks = 0
    /\ stage = [c \in FilterCalls |-> "start"]
    /\ reply = [c \in FilterCalls |-> "none"]
    /\ outcome = [c \in FilterCalls |-> "none"]
    /\ restore = NoRestore
    /\ outgoing = <<>> /\ incoming = <<>>
    /\ active = {Remembered[i] : i \in DOMAIN Remembered} \ Denied

-----------------------------------------------------------------------------
(* ncl_mqtt_client_subscribe and ncl_mqtt_client_unsubscribe               *)

CallGoto(c, place) == stage' = [stage EXCEPT ![c] = place]

CallReturn(c, rc) ==
    /\ CallGoto(c, "returned")
    /\ outcome' = [outcome EXCEPT ![c] = rc]

\* Mistake: only a connected client remembers.
WithOnline(f) ==
    IF online /\ f \notin InTable /\ Len(subs) < MaxSubs THEN Append(subs, f) ELSE subs

\* ncl_mqtt_subscription_remember: nothing happens when the table is full.
With(f) == IF f \notin InTable /\ Len(subs) < MaxSubs THEN Append(subs, f) ELSE subs

\* ncl_mqtt_subscription_forget: later entries move down.
Without(f) ==
    IF f \in InTable THEN RemoveAt(subs, CHOOSE i \in DOMAIN subs : subs[i] = f) ELSE subs

Record(c) ==
    /\ stage[c] = "start"
    /\ Apart /\ Kind[c] = "unsubscribe" => restore.step = "idle"
    /\ subs' = IF Kind[c] = "subscribe" THEN With(Filter[c]) ELSE Without(Filter[c])
    /\ CallGoto(c, "check")
    /\ UNCHANGED <<reply, outcome, restore, connection, packets>>

Check(c) ==
    /\ stage[c] = "check"
    /\ \/ online /\ CallGoto(c, "acquire") /\ UNCHANGED outcome
       \/ ~online /\ CallReturn(c, "CLOSED")
    /\ UNCHANGED <<reply, table, connection, packets>>

\* ncl_mqtt_suback_acquire
TakeSlot(c) ==
    /\ stage[c] = "acquire"
    /\ \/ SlotsTaken < MaxSubacks /\ CallGoto(c, "send") /\ UNCHANGED outcome
       \/ SlotsTaken = MaxSubacks /\ CallReturn(c, "STATE")
    /\ UNCHANGED <<reply, table, connection, packets>>

SendFilter(c) ==
    /\ stage[c] = "send"
    /\ \/ /\ linked
          /\ outgoing' = Append(outgoing, [kind |-> Kind[c], filter |-> Filter[c], call |-> c])
          /\ CallGoto(c, "wait")
          /\ UNCHANGED outcome
       \/ ~linked /\ CallReturn(c, "CLOSED") /\ UNCHANGED outgoing
    /\ UNCHANGED <<reply, table, connection, incoming, active>>

\* The wait ends: answered, disconnected, or out of time.  The slot is free again.
Leave(c) ==
    /\ stage[c] = "wait"
    /\ \/ reply[c] = "granted" /\ CallReturn(c, "OK")
       \/ reply[c] = "refused" /\ CallReturn(c, "IO")
       \/ reply[c] = "none" /\ CallReturn(c, IF online THEN "TIMEOUT" ELSE "CLOSED")
    /\ UNCHANGED <<reply, table, connection, packets>>

-----------------------------------------------------------------------------
(* The reader thread                                                       *)

\* ncl_mqtt_client_handle_suback; a reply nobody waits for is dropped.
ReadSuback ==
    /\ restore.step = "idle"
    /\ online /\ linked /\ incoming # <<>>
    /\ LET c == Head(incoming).call
       IN  reply' = IF c # NoCaller /\ stage[c] = "wait"
                    THEN [reply EXCEPT ![c] = IF Head(incoming).ok THEN "granted" ELSE "refused"]
                    ELSE reply
    /\ incoming' = Tail(incoming)
    /\ UNCHANGED <<stage, outcome, table, connection, outgoing, active>>

\* The connection breaks; what is in flight is lost, and so is the clean session.
ConnectionBreaks ==
    /\ linked /\ breaks < MaxBreaks
    /\ linked' = FALSE /\ breaks' = breaks + 1
    /\ outgoing' = <<>> /\ incoming' = <<>> /\ active' = {}
    /\ UNCHANGED <<online, table, callers>>

MarkClosed ==
    /\ restore.step = "idle"
    /\ ~linked /\ online
    /\ online' = FALSE
    /\ UNCHANGED <<linked, breaks, table, callers, packets>>

\* Mistake: a reconnect does not restore.
ReconnectOnly ==
    /\ ~linked /\ ~online
    /\ linked' = TRUE /\ online' = TRUE
    /\ UNCHANGED <<breaks, table, callers, packets>>

\* open_socket and handshake, as one step; then restore_subscriptions.
Reconnect ==
    /\ ~linked /\ ~online
    /\ linked' = TRUE /\ online' = TRUE
    /\ restore' = [NoRestore EXCEPT !.step = "count"]
    /\ UNCHANGED <<subs, breaks, callers, packets>>

RestoreCount ==
    /\ restore.step = "count"
    /\ restore' = IF subs = <<>> THEN NoRestore
                  ELSE [restore EXCEPT !.step = "read", !.i = 1, !.count = Len(subs)]
    /\ UNCHANGED <<subs, connection, callers, packets>>

More == restore.i <= restore.count /\ restore.i <= Len(subs)

\* Copy the next filter under the lock; it is used after the unlock.
RestoreRead ==
    /\ restore.step = "read"
    /\ restore' = IF More THEN [restore EXCEPT !.step = "remember", !.filter = subs[restore.i]]
                  ELSE NoRestore
    /\ UNCHANGED <<subs, connection, callers, packets>>

\* ncl_mqtt_client_subscribe_async: remember it, once more, ...
RestoreRemember ==
    /\ restore.step = "remember"
    /\ subs' = With(restore.filter)
    /\ restore' = [restore EXCEPT !.step = "acquire"]
    /\ UNCHANGED <<connection, callers, packets>>

NextFilter == restore' = [restore EXCEPT !.step = "read", !.i = @ + 1, !.filter = NoFilter]

\* ... take a slot, or give up on this filter, ...
RestoreAcquire ==
    /\ restore.step = "acquire"
    /\ \/ SlotsTaken < MaxSubacks /\ restore' = [restore EXCEPT !.step = "send"]
       \/ SlotsTaken = MaxSubacks /\ NextFilter
    /\ UNCHANGED <<subs, connection, callers, packets>>

\* ... send, and free the slot without waiting for the SUBACK.
RestoreSend ==
    /\ restore.step = "send"
    /\ outgoing' = IF linked
                   THEN Append(outgoing, [kind |-> "subscribe", filter |-> restore.filter,
                                          call |-> NoCaller])
                   ELSE outgoing
    /\ NextFilter
    /\ UNCHANGED <<subs, connection, callers, incoming, active>>

-----------------------------------------------------------------------------
\* The broker handles the packets in the order in which they were sent.
BrokerAnswers ==
    /\ outgoing # <<>>
    /\ LET p  == Head(outgoing)
           ok == p.kind = "unsubscribe" \/ p.filter \notin Denied
       IN  /\ active' = IF p.kind = "unsubscribe" THEN active \ {p.filter}
                        ELSE active \cup ({p.filter} \ Denied)
           /\ incoming' = Append(incoming, [call |-> p.call, ok |-> ok])
    /\ outgoing' = Tail(outgoing)
    /\ UNCHANGED <<table, connection, callers>>

-----------------------------------------------------------------------------
Caller(c)  == Record(c) \/ Check(c) \/ TakeSlot(c) \/ SendFilter(c) \/ Leave(c)
Restoring  == RestoreCount \/ RestoreRead \/ RestoreRemember \/ RestoreAcquire \/ RestoreSend
SubsReader == ReadSuback \/ MarkClosed \/ Reconnect \/ Restoring

\* The session is up and nothing that changes it is under way.
AtRest ==
    /\ linked /\ online
    /\ restore.step = "idle"
    /\ outgoing = <<>>

SubsQuiescent ==
    /\ AtRest /\ incoming = <<>>
    /\ \A c \in FilterCalls : stage[c] = "returned"
    /\ UNCHANGED subs_vars

SubsNext ==
    \/ \E c \in FilterCalls : Caller(c)
    \/ SubsReader
    \/ ConnectionBreaks
    \/ BrokerAnswers
    \/ SubsQuiescent

SubsSpec == SubsInit /\ [][SubsNext]_subs_vars

\* Threads run and the broker answers while there is a connection.
SubsFairSpec ==
    /\ SubsSpec
    /\ \A c \in FilterCalls : WF_subs_vars(Caller(c))
    /\ WF_subs_vars(SubsReader)
    /\ WF_subs_vars(BrokerAnswers)

-----------------------------------------------------------------------------
(* Properties                                                              *)

SubsResults == {"none", "OK", "IO", "CLOSED", "STATE", "TIMEOUT"}

\* The values every variable may take; the table holds a filter once.
SubsTypeOK ==
    /\ subs \in Seq(Filters) /\ Len(subs) <= MaxSubs
    /\ \A i, j \in DOMAIN subs : subs[i] = subs[j] => i = j
    /\ linked \in BOOLEAN /\ online \in BOOLEAN /\ breaks \in 0..MaxBreaks
    /\ stage \in [FilterCalls -> CallPlaces]
    /\ reply \in [FilterCalls -> {"none", "granted", "refused"}]
    /\ outcome \in [FilterCalls -> SubsResults]
    /\ restore \in [step : Steps, i : 0..MaxSubs + 1, count : 0..MaxSubs,
                    filter : Filters \cup {NoFilter}]
    /\ outgoing \in Seq([kind : {"subscribe", "unsubscribe"}, filter : Filters,
                         call : FilterCalls \cup {NoCaller}])
    /\ incoming \in Seq([call : FilterCalls \cup {NoCaller}, ok : BOOLEAN])
    /\ active \subseteq Filters

\* "Re-subscribe every remembered topic after a (re)connect": however calls and
\* reconnects overlap, a session at rest, no call in progress, has every
\* remembered filter the broker grants.  (An unsubscribe that overlaps a restore
\* breaks this: the table shifts under the restore's index.)
Restored ==
    AtRest /\ (\A c \in FilterCalls : stage[c] \in {"start", "returned"})
        => InTable \ Denied \subseteq active

\* "Remember the filter even while offline so it survives a reconnect": what a
\* call subscribed with NCL_OK, and no call unsubscribed, is active in every
\* later session.
SubscribedSurvives ==
    AtRest => \A c \in FilterCalls :
        /\ Kind[c] = "subscribe" /\ outcome[c] = "OK"
        /\ \A d \in FilterCalls : Kind[d] = "unsubscribe" => Filter[d] # Filter[c]
        => Filter[c] \in active

\* "Unsubscribe and wait for the UNSUBACK": what a call unsubscribed with NCL_OK,
\* and nobody subscribes, is no longer active.
UnsubscribedGone ==
    AtRest => \A c \in FilterCalls :
        /\ Kind[c] = "unsubscribe" /\ outcome[c] = "OK"
        /\ \A d \in FilterCalls : Kind[d] = "subscribe" => Filter[d] # Filter[c]
        => Filter[c] \notin active

\* A session at rest is what the calls made of it: the three promises together,
\* over a table without duplicates.
FiltersSound == SubsTypeOK /\ Restored /\ SubscribedSurvives /\ UnsubscribedGone

\* A remembered filter does become active, if the connection holds long enough
\* and nobody unsubscribes it: also one that was remembered while off line.
RememberedBecomesActive ==
    \A f \in Filters \ Denied : f \in InTable ~> f \in active \/ f \notin InTable
=============================================================================
