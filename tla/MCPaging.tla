------------------------------ MODULE MCPaging ------------------------------
(***************************************************************************)
(* Seven tables of four entries.  As in the real layout the tables start   *)
(* below the user range and reach into it: table t is frame 2 + t, the     *)
(* user range starts at page 4, and its first pages are tables 2 to 6.     *)
(* The windows the loaders use avoid the tables of the pages in use: the   *)
(* program's page is 12 (its table is page 5), the kernel's buffer is 16   *)
(* (its table is page 6), the program's stack is page 7 (table 5, which    *)
(* only the frames of the pool use).  The directory has an eighth entry    *)
(* without a table, for two pages of a window above the framebuffer.       *)
(***************************************************************************)
EXTENDS Paging

LoaderPages == {7, 12}
BufferPages == {16, 28, 29}
MCPool == 22 .. 25
=============================================================================
