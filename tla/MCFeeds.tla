------------------------------ MODULE MCFeeds -------------------------------
(* One page and one public reader, with other visitors around.              *)
EXTENDS Feeds
=============================================================================
