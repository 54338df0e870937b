---------------------------- MODULE CustomEvent ----------------------------
(***************************************************************************)
(* script/dom/customevent.rs: a CustomEvent is an Event plus a Cell        *)
(* holding detail.  new_inherited starts detail at NullValue;              *)
(* new_uninitialized wraps it for script (reflect_dom_object); new (and   *)
(* Constructor, which calls new) then runs InitCustomEvent, which sets     *)
(* detail first and then calls Event::InitEvent with the type and flags.  *)
(*                                                                         *)
(* Event is not in this sample.  Its part (InitEvent and dispatch) is     *)
(* modelled from the DOM Standard: initEvent sets the initialized flag    *)
(* and, unless the event is being dispatched, its type, bubbles and       *)
(* cancelable; dispatchEvent needs an initialized event that is not       *)
(* already being dispatched, and listeners run while it is dispatched.    *)
(***************************************************************************)
EXTENDS Naturals

CONSTANTS
  Events,     \* the CustomEvent objects script may create
  Types,      \* DOMString event types
  Details,    \* JSVal details script may pass
  NullValue   \* js::jsval::NullValue()

VARIABLES
  wrapped,    \* wrapped[e]: reflect_dom_object has made e
  detail,     \* detail[e]: the JSVal in the detail Cell
  ev,         \* ev[e]: the Event fields (initialized, dispatching, type, ...)
  evDetail    \* ghost: detail argument of the init whose InitEvent took effect

vars == <<wrapped, detail, ev, evDetail>>

NoEvent == [initialized |-> FALSE, dispatching |-> FALSE, type |-> "",
            bubbles |-> FALSE, cancelable |-> FALSE]

Sys == [detail |-> detail, ev |-> ev, evDetail |-> evDetail]

Become(s) == detail' = s.detail /\ ev' = s.ev /\ evDetail' = s.evDetail

-----------------------------------------------------------------------------
(* Event, from the DOM Standard                                            *)

InitEvent(s, e, t, b, c, d) ==
  IF s.ev[e].dispatching
  THEN [s EXCEPT !.ev[e].initialized = TRUE]
  ELSE [s EXCEPT !.ev[e] = [initialized |-> TRUE, dispatching |-> FALSE,
                            type |-> t, bubbles |-> b, cancelable |-> c],
                 !.evDetail[e] = d]

-----------------------------------------------------------------------------
(* The code                                                                *)

\* self.detail.set(detail), then EventCast and event.InitEvent(type_, ...)
InitCustomEvent(s, e, t, b, c, d) ==
  InitEvent([s EXCEPT !.detail[e] = d], e, t, b, c, d)

\* new_inherited: detail NullValue and a fresh Event
NewInherited(s, e) == [s EXCEPT !.detail[e] = NullValue, !.ev[e] = NoEvent]

-----------------------------------------------------------------------------
(* Script's steps                                                          *)

Args == Types \X BOOLEAN \X BOOLEAN \X Details

\* new_uninitialized
DoNewUninitialized(e) ==
  /\ ~wrapped[e]
  /\ wrapped' = [wrapped EXCEPT ![e] = TRUE]
  /\ Become(NewInherited(Sys, e))

\* new, and Constructor with a CustomEventInit
DoNew(e) ==
  /\ ~wrapped[e]
  /\ wrapped' = [wrapped EXCEPT ![e] = TRUE]
  /\ \E a \in Args :
       Become(InitCustomEvent(NewInherited(Sys, e), e, a[1], a[2], a[3], a[4]))

\* initCustomEvent from script, possibly from a listener during dispatch
DoInitCustomEvent(e) ==
  /\ wrapped[e]
  /\ \E a \in Args : Become(InitCustomEvent(Sys, e, a[1], a[2], a[3], a[4]))
  /\ UNCHANGED wrapped

\* dispatchEvent: the listeners run between these two steps
DoDispatch(e) ==
  /\ wrapped[e] /\ ev[e].initialized /\ ~ev[e].dispatching
  /\ ev' = [ev EXCEPT ![e].dispatching = TRUE]
  /\ UNCHANGED <<wrapped, detail, evDetail>>

DoDispatchEnd(e) ==
  /\ ev[e].dispatching
  /\ ev' = [ev EXCEPT ![e].dispatching = FALSE]
  /\ UNCHANGED <<wrapped, detail, evDetail>>

Init ==
  /\ wrapped = [e \in Events |-> FALSE]
  /\ detail = [e \in Events |-> NullValue]
  /\ ev = [e \in Events |-> NoEvent]
  /\ evDetail = [e \in Events |-> NullValue]

Next ==
  \E e \in Events :
    \/ DoNewUninitialized(e) \/ DoNew(e) \/ DoInitCustomEvent(e)
    \/ DoDispatch(e) \/ DoDispatchEnd(e)

Spec == Init /\ [][Next]_vars

-----------------------------------------------------------------------------
(* Properties                                                              *)

TypeOK ==
  /\ wrapped \in [Events -> BOOLEAN]
  /\ detail \in [Events -> Details \cup {NullValue}]
  /\ evDetail \in [Events -> Details \cup {NullValue}]
  /\ \A e \in Events :
       /\ ev[e].type \in Types \cup {""}
       /\ ev[e].initialized \in BOOLEAN /\ ev[e].dispatching \in BOOLEAN

\* InitCustomEvent: what Detail returns and the event's type and flags
\* come from the same initialization, as the DOM Standard's
\* initCustomEvent ensures by doing nothing while the event is dispatched
DetailMatchesEventInit ==
  \A e \in Events : ev[e].initialized => detail[e] = evDetail[e]

=============================================================================
