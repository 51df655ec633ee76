-------------------------- MODULE GenerationProvider --------------------------
(***************************************************************************)
(* What dispatch_generate_jobs relies on when it calls generate(): every   *)
(* call has one reply, and the reply fits the request of that call.        *)
(* Generate is shown to implement this module.                             *)
(***************************************************************************)
EXTENDS Integers

CONSTANTS
  Context,       \* tokens the provider can hold, generation_n_ctx
  Asked          \* requests: tokens of the templated prompt, and max_tokens

VARIABLES request, reply

vars == <<request, reply>>

NoReply == [kind |-> "idle", length |-> 0]
Busy    == [kind |-> "busy", length |-> 0]

\* A request is too long only if its prompt and the text it asks for exceed
\* the context together.  A text is never longer than asked for.  Both the
\* model and llama.cpp may fail, or have nothing to say.
Replies(r) ==
  [kind : {"failed", "empty"}, length : {0}]
    \cup [kind : {x \in {"toolong"} : r.prompt + r.max > Context}, length : {0}]
    \cup [kind : {"text"}, length : 1 .. r.max]

Init == request = [prompt |-> 0, max |-> 0] /\ reply = NoReply

Ask(r) ==
  /\ reply # Busy
  /\ request' = r
  /\ reply' \in {Busy} \cup Replies(r)

Answer ==
  /\ reply = Busy
  /\ reply' \in Replies(request)
  /\ UNCHANGED request

Next == Answer \/ \E r \in Asked : Ask(r)

Spec == Init /\ [][Next]_vars
===============================================================================
