--------------------------- MODULE MCHttpSession ----------------------------
(***************************************************************************)
(* HttpSession for TLC.  Once two threads have been at once between the    *)
(* session and the wire, or the connection is closed, nothing is promised  *)
(* of the outputs any more, and no other step depends on them: then TLC    *)
(* does not tell states apart by them.                                     *)
(***************************************************************************)
EXTENDS HttpSession

Judged == IF mixed \/ stage = "closed" THEN <<>> ELSE output

View ==
  <<stage, init, context, active, client, session, pushing, Judged, history, pushes>>
=============================================================================
