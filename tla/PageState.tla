------------------------------- MODULE PageState -------------------------------
(***************************************************************************)
(* The dashboard shows one page at a time, inside an error boundary keyed  *)
(* by the view, so a page's state lives from its mount to the next change  *)
(* of view.  page is that state: a record whose field name tells the page  *)
(* and whose other fields are the page's React state, the queries it reads *)
(* and the part of the server it talks to.                                 *)
(***************************************************************************)
CONSTANT None    \* null and undefined

VARIABLE page

Query == INSTANCE QueryCache

On(name) == page.name = name
================================================================================
