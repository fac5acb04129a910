---------------------------- MODULE MCRereviewState ----------------------------
EXTENDS RereviewState
CONSTANTS i1, i2, i3, f1

\* Two near issues of one file.
MCIssues == {i1, i2}
MCNear == {<<i1, i2>>}
MCGuarded == {i2}
FirstIssue == {i1}
MCFileOf == [i \in MCIssues |-> f1]

\* Three in a row: the middle one is near both others.
ChainIssues == {i1, i2, i3}
ChainNear == {<<i1, i2>>, <<i2, i3>>}
ChainFileOf == [i \in ChainIssues |-> f1]
NoIssues == {}

Kind(sev, tier, demoted, shown) ==
  [sev |-> sev, tier |-> tier, demoted |-> demoted, shown |-> shown]
Blocking == Kind(1, "blocking", FALSE, TRUE)
Advisory == Kind(2, "advisory", FALSE, TRUE)
DemotedHidden == Kind(1, "advisory", TRUE, FALSE)
Refuted == Kind(0, "refuted", FALSE, FALSE)

MCKinds == {Blocking, Advisory, DemotedHidden}
HiddenKinds == {Blocking, DemotedHidden, Refuted}
OnlyBlocking == {Blocking}
OnlyAdvisory == {Advisory}
OnlyRefuted == {Refuted}

Marker(issue, sev, tier) == [issue |-> issue, sev |-> sev, tier |-> tier]
MCMarkers == {<<>>, <<Marker(i1, Unrecoverable, "unrecoverable")>>,
              <<Marker(i1, 1, "blocking"), Marker(i2, 2, "advisory")>>}
BlockingMarker == {<<Marker(i1, 1, "blocking")>>}
AdvisoryMarker == {<<Marker(i2, 1, "advisory")>>}
ChainMarker == {<<Marker(i1, 2, "advisory")>>}
MCTags == {"none", "reply", "applied_old", "upheld", "ci_upheld", "rejected",
           "deferred", "misclassified"}
TagUpheld == {"none", "upheld"}
NoTags == {"none"}
==============================================================================
