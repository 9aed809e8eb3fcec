SPECIFICATION CaseSpec
CONSTANTS
  r1 = r1
  r2 = r2
  p1 = p1
  p2 = p2
  o1 = o1
  Talk = Talk
  Talks = {Talk}
  Types = {"return"}
  Consult = "consult"
  Requests = {r1, r2}
  TalkOf <- MCTalkOf
  TypeOf <- MCTypeOf
  Photos = {p1, p2}
  PhotoTalk <- MCPhotoTalk
  Replies = {o1}
  Casts <- MCCasts
  MaxPhotos = 1
  RepeatWindow = 1
  PhotoWindow = 1
  Retention = 1
  LastTick = 2
  LastCase = 3
  MaxStatusChanges = 1
INVARIANTS
  PhotosAreFiled
  PhotoAndRow
PROPERTIES
  RepeatsGoTogether
\* The calls and the clock are bounded: the run stops with them.
CHECK_DEADLOCK FALSE
