---- MODULE MCCookieFile ----
(* Two runs over a file with one cookie and one line a rewrite would lose, in
   every state the user may leave it in. *)
EXTENDS CookieFile
====
