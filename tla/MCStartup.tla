----------------------------- MODULE MCStartup -----------------------------
(* Swarms of up to four workers.  The two halves of the keyhash differ from *)
(* key to key, so that the owner of a key is any thread of any machine.     *)
EXTENDS Startup

TwoKeys == {1, 2 * 4096}
=============================================================================
