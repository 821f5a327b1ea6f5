------------------------------- MODULE MCPaging -------------------------------
(***************************************************************************)
(* Three pages for programs and the kernel's, over three frames, the       *)
(* kernel's among them: the frames run out.                                *)
(***************************************************************************)
EXTENDS Paging

MCPages == {0, 1, 2, 768}
=============================================================================
