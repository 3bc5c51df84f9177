---------------------------- MODULE HandlerQueue ----------------------------
(***************************************************************************)
(* What the rest of the program relies on when it hands completions to an  *)
(* io_service: a FIFO queue from which each thread inside run() or poll()  *)
(* takes one entry at a time.  Entries may be added at any moment, by      *)
(* anybody; every entry is taken once; after stop() nothing more is taken, *)
(* except that a poll() under way may take one.                            *)
(***************************************************************************)
EXTENDS Sequences, SequencesExt

CONSTANTS
  Threads,   (* threads that call run() or poll()                          *)
  Pollers,   (* those of them that call poll()                             *)
  Nothing    (* what a thread that runs no handler is running              *)

VARIABLES
  queue,     (* completions ready to be invoked                            *)
  running,   (* what each thread has taken                                 *)
  stopped    (* stop() has been called, or work has run out                *)

Init ==
  /\ queue = <<>>
  /\ running = [t \in Threads |-> Nothing]
  /\ stopped = FALSE

(* A completion arrives; several may arrive together.                      *)
Enqueue ==
  /\ IsStrictPrefix(queue, queue')
  /\ UNCHANGED <<running, stopped>>

(* A thread takes the first entry; what it had to add, it adds first.      *)
Take(t) ==
  /\ ~stopped \/ t \in Pollers
  /\ running[t] = Nothing /\ running'[t] # Nothing
  /\ running' = [running EXCEPT ![t] = running'[t]]
  /\ IsPrefix(queue, <<running'[t]>> \o queue')
  /\ UNCHANGED stopped

Finish(t) ==
  /\ running[t] # Nothing
  /\ running' = [running EXCEPT ![t] = Nothing]
  /\ UNCHANGED <<queue, stopped>>

Stop ==
  /\ stopped' = TRUE
  /\ UNCHANGED <<queue, running>>

Next == Enqueue \/ Stop \/ \E t \in Threads : Take(t) \/ Finish(t)

Spec == Init /\ [][Next]_<<queue, running, stopped>>
=============================================================================
