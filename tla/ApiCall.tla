-------------------------------- MODULE ApiCall --------------------------------
(***************************************************************************)
(* What a function of Nfs4ApiHandle or Nfs3ApiHandle says of a call it makes:  *)
(* the operations in order with what it settles in their arguments, the results  *)
(* it insists on finding and the fields of each that it hands out, the            *)
(* attributes it decodes GETATTR's result with ({}: it does not) or, byReply,     *)
(* that it goes by the bitmap of the result, whether it examines the outcome of    *)
(* the call and the status of its result, and whether the call is a compound.    *)
(***************************************************************************)
LOCAL INSTANCE TLC

Cmd(op)           == [op |-> op, tags |-> << >>, attrs |-> {}]
With(op, n, x)    == [Cmd(op) EXCEPT !.tags = n :> x]
Asking(op, attrs) == [Cmd(op) EXCEPT !.attrs = attrs]

Sends(cmds) == [cmds |-> cmds, needs |-> << >>, decodes |-> {}, byReply |-> FALSE,
                examined |-> TRUE, checked |-> TRUE, framed |-> TRUE]
Needs(call, needs)   == [call EXCEPT !.needs = needs]
Decodes(call, attrs) == [call EXCEPT !.decodes = attrs]
Unexamined(call)     == [call EXCEPT !.examined = FALSE]

\* A procedure of another program, with the fields of its result handed out.
Procedure(cmd, fields) ==
  [Sends(<<cmd>>) EXCEPT !.framed = FALSE,
                         !.needs = IF fields = {} THEN << >> ELSE <<<<cmd.op, fields>>>>]
=============================================================================
