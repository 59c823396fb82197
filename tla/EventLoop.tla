----------------------------- MODULE EventLoop -----------------------------
(***************************************************************************)
(* libsponge/util/eventloop.{hh,cc}: the list of rules and one call of     *)
(* wait_next_event(), in three parts: the rules say what they are          *)
(* interested in, poll(2) answers, and the answers are gone through in the *)
(* order of the list.  A rule is a number, its place in the list as built; *)
(* interest, callback and cancel belong to the owner of the loop.          *)
(***************************************************************************)
EXTENDS Integers, FiniteSetsExt

\* rules: the list.  events: the rules that ask for their event in this call.
\* ready, hung, error: what poll(2) answered and is still to be gone through.
LoopType(Rule) ==
    [rules : SUBSET Rule, events : SUBSET Rule, ready : SUBSET Rule, hung : SUBSET Rule,
     error : SUBSET Rule]

NewLoop(rules) == [rules |-> rules, events |-> {}, ready |-> {}, hung |-> {}, error |-> {}]

Erase(loop, r) == [loop EXCEPT !.rules = @ \ {r}]

\* Lines 66-89.
SetUp(loop, interested) == [loop EXCEPT !.events = loop.rules \cap interested]

\* Lines 91-94, Result::Exit.
NothingToPoll(loop) == loop.events = {}

\* Lines 96-120: revents & events, a hangup without it, and an error, asked or not.
\* Hangups come unasked too, but the loop ignores those.  Nothing ready is
\* Result::Timeout.
Polled(loop, ready, hangup, errors) ==
    [loop EXCEPT !.ready = loop.events \cap ready,
                 !.hung  = loop.events \cap (hangup \ ready),
                 !.error = loop.rules \cap errors]

AllHandled(loop) == loop.ready \cup loop.hung \cup loop.error = {}

\* The rule whose answer is next.  The callbacks of the rules before one with an
\* error run before its exception is thrown.
Current(loop) == Min(loop.ready \cup loop.hung \cup loop.error)

\* Mutant: the answer of a cancelled rule is not stepped over.
HandledButHung(loop, r) == [loop EXCEPT !.ready = @ \ {r}]

\* On to the next rule and its answer.
Handled(loop, r) == [loop EXCEPT !.ready = @ \ {r}, !.hung = @ \ {r}]

\* Lines 134-138: the callback left things as they were.
BusyWait(serviced, interested) == ~ serviced /\ interested
=============================================================================
