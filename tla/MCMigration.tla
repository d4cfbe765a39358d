------------------------------ MODULE MCMigration ------------------------------
(* A busy chat with two documents in its old index, in pages of one, and a chat *)
(* with one document or without an old index.                                   *)
EXTENDS Migration

MCIds    == 1 .. 2
MCStores ==
  {[c \in Chats |-> IF c \in Busy THEN <<2, 1>> ELSE store] : store \in {Gone, <<1>>}}

=============================================================================
