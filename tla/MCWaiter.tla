------------------------------- MODULE MCWaiter -------------------------------
(***************************************************************************)
(* One acceptor of each kind, in an order that decides: "READY" is a       *)
(* success although the last acceptor matches every output.  "Denied" is   *)
(* matched by none.                                                        *)
(***************************************************************************)
EXTENDS Waiter

Acceptor(state, matcher, expected) ==
    [state |-> state, matcher |-> matcher, expected |-> expected]

SomeAcceptors ==
    <<Acceptor("success", "output", "READY"),
      Acceptor("failure", "output", "FAILED"),
      Acceptor("retry", "errorType", "NotFound"),
      Acceptor("success", "errorType", "Gone"),
      Acceptor("retry", "success", "true")>>
=============================================================================
