---------------------------- MODULE MCAsioAwaiters ----------------------------
(* AsioAwaiters with one coroutine of each kind.                            *)
EXTENDS AsioAwaiters

CONSTANTS callback, guarded, polling, threaded

MCCoroutines == {callback, guarded, polling, threaded}
MCKind == [c \in MCCoroutines |->
            CASE c = callback -> "callback"
              [] c = guarded -> "guarded"
              [] c = polling -> "polling"
              [] c = threaded -> "threaded"]

MCSessions == {callback}
MCSessionKind == [c \in MCSessions |-> "callback"]
===============================================================================
