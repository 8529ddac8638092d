\* By hand, one claim after the other (TLC stops at the first that fails: take it off the
\* list to see the next): explore/page.tsx promises that the pinned token appears once; it
\* comes again on the page where it is listed (OfficialOnce).  queries.ts promises that an
\* unranked list is not presented as a ranking; the list and the scores are read one after
\* the other, and hidden tokens have scores too (RankingIsScored).  An entry of the audit log
\* tells the status the decision found; two moderators at once leave one that does not
\* (AuditTellsBefore).
SPECIFICATION Spec
CONSTANTS
  Launches = {1, 2, 3}
  FirstLaunches = 2
  Wrapped = {1}
  Official = 1
  PageSize = 1
  Sorts = {"NEW", "TRENDING"}
  None = None
  MaxWork = 2
  MaxVisits = 1
INVARIANTS
  OfficialOnce
  RankingIsScored
  AuditTellsBefore
CHECK_DEADLOCK FALSE
