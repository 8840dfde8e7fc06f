--------------------------- MODULE ManagedResource ---------------------------
(***************************************************************************)
(* A resource that is loaded on first use, handed out to any thread and    *)
(* finalised by close.  Every method holds the lock of the resource, so    *)
(* each is one step; the handle a caller got is used outside the lock.     *)
(*                                                                         *)
(* The instances are numbered as they are loaded.  current is the cached   *)
(* one, 0 for none, loads counts the instances, and finalised has those    *)
(* whose finaliser returned.                                               *)
(***************************************************************************)
EXTENDS Naturals

Unloaded == [current |-> 0, loads |-> 0, finalised |-> {}]

IsLoaded(r) == r.current # 0

Load(r) ==
    IF IsLoaded(r) THEN r
    ELSE [r EXCEPT !.current = r.loads + 1, !.loads = @ + 1]

\* Mutant: the instance is forgotten before it is finalised.
ForgetThenFinalise(r, raises) ==
    IF ~IsLoaded(r) THEN r
    ELSE [r EXCEPT !.finalised = IF raises THEN @ ELSE @ \cup {r.current}, !.current = 0]

\* A finaliser that raises leaves the instance cached.
Close(r, raises) ==
    IF ~IsLoaded(r) \/ raises THEN r
    ELSE [r EXCEPT !.finalised = @ \cup {r.current}, !.current = 0]

\* Every instance that was loaded and not finalised can still be reached.
NothingLeaks(r) == 1..r.loads \ r.finalised \subseteq {r.current}

=============================================================================
