---------------------------- MODULE MCFepGClient ----------------------------
(* A program with handlers for every signal; the second one for            *)
(* filter-event is connected with g_signal_connect_after.                  *)
EXTENDS FepGClient

MCClosures ==
  [s \in Signal |->
     CASE s = "filter-event" -> <<"user", "default", "user">>
       [] s = "filter-key-event" -> <<"user", "user", "default">>
       [] s = "resized" -> <<"user", "default">>]
=============================================================================
