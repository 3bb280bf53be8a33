SPECIFICATION Spec
INVARIANT LinkIsFollowed
CHECK_DEADLOCK FALSE
