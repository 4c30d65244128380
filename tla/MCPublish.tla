------------------------------- MODULE MCPublish -------------------------------
\* Instances of Publish for TLC.
EXTENDS Publish

Wish(auto, own, natural, smallest, over, replace, live) ==
  [auto |-> auto, own |-> own, natural |-> natural, smallest |-> smallest,
   over |-> over, replace |-> replace, live |-> live]

CONSTANTS j1, j2

\* A large video that can be made as small as it takes, replaced as its author.
Video == Wish(TRUE, 1, 4, 1, "skip", "author", FALSE)
\* One under a limit of the profile's own.
Limited == Wish(FALSE, 2, 2, 1, "skip", "no", FALSE)
\* A capture that is announced, replaced as the bot, never as small as the lowest rung.
Capture == Wish(TRUE, 1, 3, 2, "link", "bot", TRUE)

MixedWishes == [j \in Jobs |-> IF j = j1 THEN {Video} ELSE {Limited, Capture}]

================================================================================
