SPECIFICATION FairSpec
CONSTANTS
  None = None
  first = first
  retry = retry
  system = system
  web = web
  etcd = etcd
  Reviews = {first, retry, system}
  Labelled = {web}
  PodOf <- MCPodOf
  Posts <- MCPosts
  MaxPosts = 1
INVARIANTS
  TypeOK
  StoredOnlyIfAllowed
  AllowsOnlyPods
PROPERTIES
  ReviewsEnd
CHECK_DEADLOCK FALSE
