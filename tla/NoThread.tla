------------------------------ MODULE NoThread ------------------------------
\* The value of a mutex that nobody holds, shared by Waiter and WaitGroup.
CONSTANT NULL
=============================================================================
