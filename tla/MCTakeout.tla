------------------------------ MODULE MCTakeout ------------------------------
(***************************************************************************)
(* An account for Takeout: three dialogs, pages of two, two ranges.        *)
(***************************************************************************)
EXTENDS Takeout

MCKind == <<"megagroups", "channels", "chats">>
UserKind == <<"users", "users", "users">>

post == "post"
service == "service"

\* Posts only, over a full page and across the ranges; a service message at the
\* top, in the middle of a page, at the end; fewer messages than a page.
MCHistories ==
  { <<post, post, post, post, post>>, <<post, service, post, post>>,
    <<service, post>>, <<post>> }

UserScopes == { {"users"} }

MCScopes == { {"megagroups"}, {"channels", "chats"}, {"megagroups", "channels"} }

\* Nothing is known, or chats of either kind are, with either watching.
MCTables == { <<"none", "none", "none">>, <<"watched", "unwatched", "none">> }

MCRanges == << [lo |-> 0, hi |-> 4], [lo |-> 4, hi |-> 5] >>

=============================================================================
