---------------------------- MODULE MCAddressSpace ----------------------------
(* A small instance of AddressSpace: processes that fork, create and join  *)
(* threads, and are killed.                                                *)
EXTENDS AddressSpace

MemoryCalls == {"fork", "thread_create", "exit", "wait", "waitpid", "thread_join",
                "kill"}

(* Half a page, one page; give half a page back. *)
HalfPages == {-1, 1, 2}
=============================================================================
