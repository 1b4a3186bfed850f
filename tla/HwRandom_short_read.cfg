\* A short getrandom read makes hw_get_random_bytes report SUCCESS with part of the buffer unfilled.
CONSTANTS
    Lens = {0, 2}
SPECIFICATION Spec
INVARIANT FilledOnSuccess
