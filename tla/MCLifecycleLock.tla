-------------------------- MODULE MCLifecycleLock --------------------------
(* LifecycleLock for TLC.  Three tasks over two keys: a waiter behind a       *)
(* waiter, and a second key to confuse.  A task uses one lock object at a     *)
(* time, and a new object is made only for a key that has none, so three      *)
(* objects are as many as are ever in use.                                    *)
EXTENDS LifecycleLock
=============================================================================
