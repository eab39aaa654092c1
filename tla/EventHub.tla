------------------------------ MODULE EventHub ------------------------------
(***************************************************************************)
(* The event hub (events/producer, events/consumer): producers put events  *)
(* into a bounded channel, one goroutine gives each event to the handlers  *)
(* registered for its type, and consumers register over a stream, each     *)
(* with its interests.                                                     *)
(***************************************************************************)
EXTENDS Integers, Sequences, FiniteSets, SequencesExt

CONSTANTS
  Consumers,
  EventTypes,        \* the types of AddEventType
  Interests,         \* Interests[c]: the types c registers for, with the form it wants
  BufferSize,        \* of eventChannel
  SendTimeout,       \* eventProcessor.timeout: -1, 0 or 1
  MaxEvents          \* bound: events sent

VARIABLES
  eventChannel,      \* events are numbered as they are sent
  events,            \* the type of each event sent
  discarded,         \* events that Send could not send
  eventConsumers,    \* eventConsumers[type]: the handlers in its list
  interested,        \* interested[c]: the types in interestedEvents of c's handler
  handlers,          \* handlers[c]: how far c's stream has got
  hub,               \* the event in work, its form, and the handlers still to serve
  inbox              \* inbox[c]: messages of the stream to c

eventVars == <<eventChannel, events, discarded, eventConsumers, interested, handlers, hub, inbox>>

NoEvent == [event |-> 0, form |-> "none", left |-> {}]

EventsInit ==
  /\ eventChannel = <<>> /\ events = <<>> /\ discarded = {}
  /\ eventConsumers = [type \in EventTypes |-> {}]
  /\ interested = [c \in Consumers |-> {}]
  /\ handlers = [c \in Consumers |-> "new"]
  /\ hub = NoEvent
  /\ inbox = [c \in Consumers |-> <<>>]

(* Send: with a full channel it waits, gives up, or gives up after a time. *)
Send(type) ==
  /\ Len(events) < MaxEvents
  /\ events' = Append(events, type)
  /\ \/ /\ Len(eventChannel) < BufferSize
        /\ eventChannel' = Append(eventChannel, Len(events) + 1)
        /\ UNCHANGED discarded
     \/ /\ Len(eventChannel) = BufferSize /\ SendTimeout # 0
        /\ discarded' = discarded \cup {Len(events) + 1}
        /\ UNCHANGED eventChannel
  /\ UNCHANGED <<eventConsumers, interested, handlers, hub, inbox>>

(* start: the next event; the list of its type stays locked until every    *)
(* handler has been served.                                                *)
TakeEvent ==
  /\ hub = NoEvent /\ eventChannel # <<>>
  /\ eventChannel' = Tail(eventChannel)
  /\ LET hl == eventConsumers[events[Head(eventChannel)]]
     IN hub' = IF hl = {} THEN NoEvent
               ELSE [event |-> Head(eventChannel), form |-> "protobuf", left |-> hl]
  /\ UNCHANGED <<events, discarded, eventConsumers, interested, handlers, inbox>>

(* Does not wait until the registration was answered.                      *)
responseTypeEarly(c, type) == IF type \in interested[c] THEN Interests[c][type] ELSE "dontsend"

(* responseType: nothing is sent before the handler is registered.         *)
responseType(c, type) ==
  IF handlers[c] = "registered" /\ type \in interested[c] THEN Interests[c][type] ELSE "dontsend"

(* One handler of the list, which is a Go map and has no order.  The event *)
(* itself is turned into a generic one for a consumer that wants JSON, and *)
(* stays so for the handlers after it.                                     *)
ServeHandler(c) ==
  LET rType == responseType(c, events[hub.event])
      form == IF rType = "json" /\ events[hub.event] # "generic" THEN "json" ELSE hub.form
  IN /\ c \in hub.left
     /\ hub' = IF hub.left = {c} THEN NoEvent ELSE [hub EXCEPT !.left = @ \ {c}, !.form = form]
     /\ inbox' = IF rType = "dontsend" THEN inbox
                 ELSE [inbox EXCEPT ![c] = Append(@, [event |-> hub.event, form |-> form])]
     /\ UNCHANGED <<eventChannel, events, discarded, eventConsumers, interested, handlers>>

HandlerListFree(type) == hub # NoEvent => events[hub.event] # type

(* The consumer's Start: the stream, and its registration message.         *)
StartClient(c) ==
  /\ handlers[c] = "new"
  /\ handlers' = [handlers EXCEPT ![c] = "registering"]
  /\ UNCHANGED <<eventChannel, events, discarded, eventConsumers, interested, hub, inbox>>

(* handler.register and registerHandler, for one interest.                 *)
registerHandler(c, type) ==
  /\ handlers[c] = "registering" /\ type \in DOMAIN Interests[c] \ interested[c]
  /\ HandlerListFree(type)
  /\ eventConsumers' = [eventConsumers EXCEPT ![type] = @ \cup {c}]
  /\ interested' = [interested EXCEPT ![c] = @ \cup {type}]
  /\ UNCHANGED <<eventChannel, events, discarded, handlers, hub, inbox>>

(* HandleMessage: the registration is sent back, and then registered set.  *)
SendBack(c) ==
  /\ handlers[c] = "registering" /\ interested[c] = DOMAIN Interests[c]
  /\ handlers' = [handlers EXCEPT ![c] = "replied"]
  /\ inbox' = [inbox EXCEPT ![c] = Append(@, [event |-> 0, form |-> "register"])]
  /\ UNCHANGED <<eventChannel, events, discarded, eventConsumers, interested, hub>>

SetRegistered(c) ==
  /\ handlers[c] = "replied"
  /\ handlers' = [handlers EXCEPT ![c] = "registered"]
  /\ UNCHANGED <<eventChannel, events, discarded, eventConsumers, interested, hub, inbox>>

(* The stream ends; Stop deregisters, and then waits on doneChan, which    *)
(* nobody reads: Chat does not return, and registered stays set.           *)
EndChat(c) ==
  /\ handlers[c] = "registered"
  /\ \E type \in interested[c] :
       /\ HandlerListFree(type)
       /\ eventConsumers' = [eventConsumers EXCEPT ![type] = @ \ {c}]
       /\ interested' = [interested EXCEPT ![c] = @ \ {type}]
       /\ handlers' = [handlers EXCEPT ![c] = IF interested[c] = {type} THEN "stopping" ELSE @]
  /\ UNCHANGED <<eventChannel, events, discarded, hub, inbox>>

EventsNext ==
  \/ \E type \in EventTypes : Send(type)
  \/ TakeEvent
  \/ \E c \in Consumers : \/ StartClient(c) \/ SendBack(c) \/ SetRegistered(c) \/ EndChat(c) \/ ServeHandler(c)
                          \/ \E type \in EventTypes : registerHandler(c, type)

(* The hub's goroutine, and each stream's, go on.                          *)
EventsFairness ==
  /\ WF_eventVars(TakeEvent) /\ WF_eventVars(\E c \in Consumers : ServeHandler(c))
  /\ \A c \in Consumers : /\ WF_eventVars(\E type \in EventTypes : registerHandler(c, type))
                          /\ WF_eventVars(SendBack(c)) /\ WF_eventVars(SetRegistered(c))

EventsSpec == EventsInit /\ [][EventsNext]_eventVars /\ EventsFairness

-----------------------------------------------------------------------------
(* Types.                                                                  *)
EventsTypeOK ==
  /\ Len(eventChannel) <= BufferSize
  /\ \A type \in EventTypes, c \in Consumers : c \in eventConsumers[type] <=> type \in interested[c]

(* A consumer's stream starts with the answer to its registration          *)
(* (EventsClient.register fails on anything else), and then has events it  *)
(* asked for, each once and in the order in which they were sent.          *)
StreamInOrder ==
  \A c \in Consumers :
    /\ inbox[c] # <<>> => inbox[c][1].form = "register"
    /\ \A i \in DOMAIN inbox[c] : i > 1 =>
         /\ inbox[c][i].event > inbox[c][i - 1].event
         /\ events[inbox[c][i].event] \in DOMAIN Interests[c]

(* An event sent while a consumer is registered for it reaches the         *)
(* consumer, unless Send gave it up or the stream ends.                    *)
EventDelivered ==
  \A c \in Consumers, n \in 1 .. MaxEvents :
    (/\ Len(events) = n /\ n \notin discarded /\ handlers[c] = "registered"
     /\ events[n] \in interested[c] /\ \E i \in DOMAIN eventChannel : eventChannel[i] = n)
      ~> ((\E i \in DOMAIN inbox[c] : inbox[c][i].event = n) \/ interested[c] # DOMAIN Interests[c])
=============================================================================
