--------------------------- MODULE ErrorHandling ----------------------------
(***************************************************************************)
(* Errors in one process: PG_TRY with PG_CATCH or PG_FINALLY, and          *)
(* PG_ENSURE_ERROR_CLEANUP, which also cleans up when the process exits.   *)
(* PG_exception_stack and error_context_stack point into the frames of     *)
(* functions that are running; here a pointer is the depth of its frame,   *)
(* and 0 is the handler of the main loop, or no callback.                  *)
(*                                                                         *)
(* A "context" frame is a function that adds itself to the error context   *)
(* while it runs.  ereport, pg_re_throw, the main loop and the lists of    *)
(* exit callbacks are compiled code.  The limit on errors that are handled *)
(* inside each other, after which ereport ends the server, is left out.    *)
(***************************************************************************)
EXTENDS Integers, Sequences

CONSTANTS MaxDepth,     \* a bound on the blocks inside each other
          MaxBlocks     \* a bound on the blocks of a command

ASSUME ErrorHandlingAssumption == MaxDepth \in Nat /\ MaxBlocks \in Nat

VARIABLES frames,               \* the blocks that are being executed
          PG_exception_stack,
          error_context_stack,
          exitCallbacks,        \* before_shmem_exit: the blocks to clean up (the latest is the
                                \* one that cancel_before_shmem_exit may find)
          blocks                \* what has become of each block of the command

errorVars == <<frames, PG_exception_stack, error_context_stack, exitCallbacks, blocks>>

Tries == {"catch", "finally", "ensure"}
Contexts == {"context"}
Kinds == Tries \cup Contexts

ErrorInit ==
  /\ frames = << >> /\ blocks = << >> /\ exitCallbacks = {}
  /\ PG_exception_stack = 0 /\ error_context_stack = 0

Top == frames[Len(frames)]
KindOf(frame) == blocks[frame.block].kind

\* History, for the properties: the blocks with those of the given frames ended, and those in
\* run cleaned up (once more).
Ended(depths, how, run) ==
  [b \in DOMAIN blocks |->
     [blocks[b] EXCEPT !.ended = IF \E d \in depths : frames[d].block = b THEN how ELSE @,
                       !.ran = IF b \in run THEN @ + 1 ELSE @]]

\* PG_TRY, behind before_shmem_exit in PG_ENSURE_ERROR_CLEANUP; or the start of a
\* function with an error context callback.
PG_TRY(kind) ==
  /\ Len(frames) < MaxDepth /\ Len(blocks) < MaxBlocks
  /\ frames' = Append(frames, [block |-> Len(blocks) + 1, section |-> "body",
                               save_exception_stack |-> PG_exception_stack,
                               save_context_stack |-> error_context_stack,
                               do_rethrow |-> FALSE])
  /\ blocks' = Append(blocks, [kind |-> kind, ended |-> "no", failed |-> FALSE, ran |-> 0])
  /\ PG_exception_stack' = IF kind \in Tries THEN Len(frames) + 1 ELSE PG_exception_stack
  /\ error_context_stack' = IF kind \in Contexts THEN Len(frames) + 1 ELSE error_context_stack
  /\ exitCallbacks' = IF kind = "ensure" THEN exitCallbacks \cup {Len(blocks) + 1}
                      ELSE exitCallbacks

\* Error in the code: the error context is left as the error found it.
RestoreException(frame) ==
  /\ PG_exception_stack' = frame.save_exception_stack
  /\ UNCHANGED error_context_stack

\* The assignments of PG_CATCH, PG_FINALLY and PG_END_TRY.
Restore(frame) ==
  /\ PG_exception_stack' = frame.save_exception_stack
  /\ error_context_stack' = frame.save_context_stack

\* Error in the code: the handler does not cancel the callback before it cleans up.
HandlerKeepsCallback(d) ==
  LET f == frames[d]
      kind == KindOf(f)
  IN /\ frames' = Append(SubSeq(frames, 1, d - 1),
                         [f EXCEPT !.section = "handler", !.do_rethrow = (kind # "catch")])
     /\ blocks' = [Ended((d + 1)..Len(frames), "error", {f.block}) EXCEPT ![f.block].failed = TRUE]
     /\ UNCHANGED exitCallbacks
     /\ Restore(f)

\* siglongjmp to the handler of depth d: its frame alone is left of those inside it.
\* The handler of PG_END_ENSURE_ERROR_CLEANUP cancels the callback, then cleans up.
Handler(d) ==
  LET f == frames[d]
      kind == KindOf(f)
  IN /\ frames' = Append(SubSeq(frames, 1, d - 1),
                         [f EXCEPT !.section = "handler", !.do_rethrow = (kind # "catch")])
     /\ blocks' = [Ended((d + 1)..Len(frames), "error", {f.block}) EXCEPT ![f.block].failed = TRUE]
     /\ exitCallbacks' = exitCallbacks \ {f.block}
     /\ Restore(f)

\* An error outside all blocks, or that no block catches, is reported by the main loop.
MainLoopHandler ==
  /\ frames' = << >> /\ error_context_stack' = 0
  /\ blocks' = Ended(DOMAIN frames, "error", {})
  /\ UNCHANGED <<PG_exception_stack, exitCallbacks>>

Throw == IF PG_exception_stack = 0 THEN MainLoopHandler ELSE Handler(PG_exception_stack)

\* ereport(ERROR) in a body or a handler, or PG_RE_THROW at the end of a PG_CATCH.
Error == frames # << >> /\ Throw

Pop(how) ==
  /\ frames' = SubSeq(frames, 1, Len(frames) - 1)
  /\ blocks' = Ended({Len(frames)}, how, {})

\* The end of a body: PG_FINALLY goes on to its cleanup, the others to PG_END_TRY.
EndBody ==
  /\ frames # << >> /\ Top.section = "body"
  /\ Restore(Top)
  /\ IF KindOf(Top) = "finally"
     THEN /\ frames' = [frames EXCEPT ![Len(frames)].section = "handler"]
          /\ blocks' = Ended({}, "no", {Top.block})
     ELSE Pop("ok")
  /\ exitCallbacks' = exitCallbacks \ {Top.block}

\* PG_END_TRY after a handler: PG_RE_THROW, or the error is no more.
EndHandler ==
  /\ frames # << >> /\ Top.section = "handler"
  /\ IF Top.do_rethrow THEN Throw
     ELSE Pop("ok") /\ Restore(Top) /\ UNCHANGED exitCallbacks

\* ereport(FATAL): proc_exit runs the callbacks that are left.
Fatal ==
  /\ frames # << >>
  /\ blocks' = Ended(DOMAIN frames, "exit", exitCallbacks)
  /\ frames' = << >> /\ exitCallbacks' = {}
  /\ PG_exception_stack' = 0 /\ error_context_stack' = 0

\* The main loop reads its next command, or another process starts.
NextCommand ==
  /\ frames = << >>
  /\ blocks' = << >>
  /\ UNCHANGED <<frames, PG_exception_stack, error_context_stack, exitCallbacks>>

ErrorNext ==
  \/ \E kind \in Kinds : PG_TRY(kind)
  \/ Error
  \/ EndBody
  \/ EndHandler
  \/ Fatal
  \/ NextCommand

ErrorSpec == ErrorInit /\ [][ErrorNext]_errorVars

-----------------------------------------------------------------------------
\* d is the depth of the innermost of the frames 1..n that is in a body of one of the kinds.
Innermost(d, n, kinds) ==
  LET executed == {i \in 1..n : frames[i].section = "body" /\ KindOf(frames[i]) \in kinds}
  IN /\ d \in executed \cup {0}
     /\ \A i \in executed : i <= d

\* An error always jumps to the innermost block whose body is being executed, and reports
\* the callbacks of functions that are running: never to a block whose handler runs already
\* (which would handle its own errors for ever), nor into a frame that has returned.
HandlersNest ==
  /\ Innermost(PG_exception_stack, Len(frames), Tries)
  /\ Innermost(error_context_stack, Len(frames), Contexts)

\* A block's cleanup is executed once if the block fails, by the handler or by the exit
\* callback, however many errors follow each other and wherever the process exits; only
\* PG_FINALLY also cleans up after success, and is not reached by an exit.  A block that
\* failed does not end like one that did not, unless it catches errors.
CleanupOnce ==
  \A b \in DOMAIN blocks :
    LET block == blocks[b]
    IN /\ block.kind = "ensure" /\ block.ended # "no" =>
            block.ran = (IF block.ended = "ok" THEN 0 ELSE 1)
       /\ block.kind = "finally" =>
            /\ block.ended \in {"ok", "error"} => block.ran = 1
            /\ block.ended = "exit" => block.ran \in {0, 1}
       /\ block.kind \in {"finally", "ensure"} /\ block.failed => block.ended # "ok"

=============================================================================
