----------------------------- MODULE CancelToken -----------------------------
(* domain/cancellation.py: a flag that is set at most once and never cleared,
   one for every cancellable call. The caller sets it, the call looks at it. *)

CONSTANT Call         \* cancellable calls

VARIABLE token        \* token[c]: the call c was asked to stop

TokenInit == token = [c \in Call |-> FALSE]

CancelCall(c) == token' = [token EXCEPT ![c] = TRUE]

=============================================================================
