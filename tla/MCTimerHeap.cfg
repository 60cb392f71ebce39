SPECIFICATION HeapSpec
CONSTANTS
    Awaiters = {t1, t2, t3, t4, t5, t6}
    Deadlines = {1, 2, 3}
PROPERTY ImplementsDeadlineQueue
