CONSTANTS
  r1 = r1
  r2 = r2
  w1 = w1
  w2 = w2
  Post = Post
  Tag = Tag
  postsWithTags = postsWithTags
  NoTx = NoTx
  NoRows = NoRows
  Tags = {Post, Tag}
  TagsOf <- PostTags
  Readers = {r1, r2}
  Writers = {w1, w2}
  Shapes = {postsWithTags}
  Footprint <- TagAndPost
  Kind <- UnitAndPlain
  Uncached = {}
  Lookups = {TRUE, FALSE}
  Dedupe = TRUE
  Faults = {"versions", "get", "set", "encode", "decode", "fetch"}
  MaxClears = 1
SPECIFICATION FairSpec
INVARIANTS
  Fresh
  NoUncommittedRows
  FlightsAreLive
PROPERTIES
  EveryReadSettles
