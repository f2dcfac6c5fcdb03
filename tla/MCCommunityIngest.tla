------------------------- MODULE MCCommunityIngest -------------------------
(* A small instance of CommunityIngest for TLC.                             *)
EXTENDS CommunityIngest

\* One source of each kind; the publication comes first.
ThreeSources == 1..3
ThreeKinds   == <<"substack", "unsupported", "absent">>
\* Once post 4 is out, the first page of two holds nothing that can be kept.
PaidPosts == {4}
ThinPosts == {3}
=============================================================================
